---- MODULE Spec2Model ----
(***************************************************************************)
(* Story-ordering resolver of astrhtml (src/lib/stage_parser.py and its    *)
(* callers).  Python strings are modelled as sequences of one-character    *)
(* strings, so that replace / in / startswith / re.match / split / sorted  *)
(* are computed the way the interpreter computes them.                     *)
(***************************************************************************)
EXTENDS Integers, Sequences, FiniteSets, TLC

\* the interpreter's str hash randomisation (PYTHONHASHSEED) of the running process
VARIABLE hash_seed

\* ------------------------------------------------------------------------
\* Python str primitives
\* ------------------------------------------------------------------------

\* Code points, in ascending order, of the characters the model's strings use.
Chars == << "-", ".", "/", "0", "1", "2", "3", "4", "5", "6", "7", "8", "9",
            "A", "B", "C", "D", "E", "F", "G", "H", "I", "J", "K", "L", "M",
            "N", "O", "P", "Q", "R", "S", "T", "U", "V", "W", "X", "Y", "Z",
            "_",
            "a", "b", "c", "d", "e", "f", "g", "h", "i", "j", "k", "l", "m",
            "n", "o", "p", "q", "r", "s", "t", "u", "v", "w", "x", "y", "z" >>

CharSet == { Chars[i] : i \in 1..Len(Chars) }

Ord == [ c \in CharSet |-> CHOOSE i \in 1..Len(Chars) : Chars[i] = c ]

Digits == << "0", "1", "2", "3", "4", "5", "6", "7", "8", "9" >>

DigitSet == { Digits[i] : i \in 1..10 }

DigitVal == [ c \in DigitSet |-> (CHOOSE i \in 1..10 : Digits[i] = c) - 1 ]

UpperCase == << "A", "B", "C", "D", "E", "F", "G", "H", "I", "J", "K", "L", "M",
                "N", "O", "P", "Q", "R", "S", "T", "U", "V", "W", "X", "Y", "Z" >>

LowerCase == << "a", "b", "c", "d", "e", "f", "g", "h", "i", "j", "k", "l", "m",
                "n", "o", "p", "q", "r", "s", "t", "u", "v", "w", "x", "y", "z" >>

UpperSet == { UpperCase[i] : i \in 1..26 }

LowerSet == { LowerCase[i] : i \in 1..26 }

ToUpper == [ c \in LowerSet |-> UpperCase[CHOOSE i \in 1..26 : LowerCase[i] = c] ]

ToLower == [ c \in UpperSet |-> LowerCase[CHOOSE i \in 1..26 : UpperCase[i] = c] ]

\* str.upper()
Upper(s) == [ i \in 1..Len(s) |-> IF s[i] \in LowerSet THEN ToUpper[s[i]] ELSE s[i] ]

\* str.lower()
Lower(s) == [ i \in 1..Len(s) |-> IF s[i] \in UpperSet THEN ToLower[s[i]] ELSE s[i] ]

\* s[i:] with a 1-based i
From(s, i) == SubSeq(s, i, Len(s))

\* s.startswith(p)
StartsWith(s, p) == Len(p) <= Len(s) /\ SubSeq(s, 1, Len(p)) = p

\* s.endswith(p)
EndsWith(s, p) == Len(p) <= Len(s) /\ SubSeq(s, Len(s) - Len(p) + 1, Len(s)) = p

\* s[i:].startswith(p) with a 1-based i
MatchAt(s, i, p) == i >= 1 /\ i + Len(p) - 1 <= Len(s) /\ SubSeq(s, i, i + Len(p) - 1) = p

\* p in s
Contains(s, p) == \E i \in 1..(Len(s) - Len(p) + 1) : MatchAt(s, i, p)

\* s.replace(old, new): every non-overlapping occurrence, left to right
RECURSIVE StrReplace(_, _, _)
StrReplace(s, old, new) ==
    IF Len(s) < Len(old) THEN s
    ELSE IF MatchAt(s, 1, old) THEN new \o StrReplace(From(s, Len(old) + 1), old, new)
    ELSE <<Head(s)>> \o StrReplace(Tail(s), old, new)

\* the positions of c in s
Positions(s, c) == { i \in 1..Len(s) : s[i] = c }

SetMax(S) == CHOOSE x \in S : \A y \in S : y <= x

SetMin(S) == CHOOSE x \in S : \A y \in S : x <= y

\* s.split(c)[-1]
SplitLast(s, c) == IF Positions(s, c) = {} THEN s ELSE From(s, SetMax(Positions(s, c)) + 1)

\* s.split(c)[0]
SplitFirst(s, c) == IF Positions(s, c) = {} THEN s ELSE SubSeq(s, 1, SetMin(Positions(s, c)) - 1)

\* len(s.split(c))
SplitCount(s, c) == Cardinality(Positions(s, c)) + 1

\* the length of the longest run of digits of s that starts at 1-based i
RECURSIVE DigitRunLen(_, _)
DigitRunLen(s, i) ==
    IF i <= Len(s) /\ s[i] \in DigitSet THEN 1 + DigitRunLen(s, i + 1) ELSE 0

\* the text a greedy \d+ matches at 1-based i
DigitRun(s, i) == SubSeq(s, i, i + DigitRunLen(s, i) - 1)

\* s.isdigit()
IsDigit(s) == Len(s) > 0 /\ \A i \in 1..Len(s) : s[i] \in DigitSet

\* int(s) of a string of digits
RECURSIVE DigitsToInt(_)
DigitsToInt(s) ==
    IF Len(s) = 0 THEN 0
    ELSE 10 * DigitsToInt(SubSeq(s, 1, Len(s) - 1)) + DigitVal[s[Len(s)]]

\* str(n) of n >= 0
RECURSIVE NatToStr(_)
NatToStr(n) == IF n < 10 THEN <<Digits[n + 1]>> ELSE NatToStr(n \div 10) \o <<Digits[(n % 10) + 1]>>

\* str(n)
IntToStr(n) == IF n < 0 THEN <<"-">> \o NatToStr(0 - n) ELSE NatToStr(n)

\* whether int(s) returns: an optional sign, then digits
IntParses(s) ==
    \/ IsDigit(s)
    \/ Len(s) > 1 /\ s[1] = "-" /\ IsDigit(Tail(s))

\* int(s) where it returns
ParseInt(s) == IF s[1] = "-" THEN 0 - DigitsToInt(Tail(s)) ELSE DigitsToInt(s)

\* s.zfill(2)
Zfill2(s) == IF Len(s) >= 2 THEN s ELSE IF Len(s) = 1 THEN <<"0">> \o s ELSE <<"0", "0">>

\* a < b for str: by code point, a proper prefix first
RECURSIVE StrLess(_, _)
StrLess(a, b) ==
    IF Len(b) = 0 THEN FALSE
    ELSE IF Len(a) = 0 THEN TRUE
    ELSE IF a[1] = b[1] THEN StrLess(Tail(a), Tail(b))
    ELSE Ord[a[1]] < Ord[b[1]]

\* ------------------------------------------------------------------------
\* String literals of the source
\* ------------------------------------------------------------------------

s_level_ == << "l", "e", "v", "e", "l", "_" >>

s_json == << ".", "j", "s", "o", "n" >>

s_beg == << "_", "b", "e", "g" >>

s_end == << "_", "e", "n", "d" >>

s_st == << "_", "s", "t" >>

s_hidden_st == << "_", "h", "i", "d", "d", "e", "n", "_", "s", "t" >>

s_sub == << "_", "s", "u", "b", "-" >>

s_story_ == << "s", "t", "o", "r", "y", "_" >>

s_act3d0 == << "a", "c", "t", "3", "d", "0" >>

s_act4d0 == << "a", "c", "t", "4", "d", "0" >>

s_act6d5 == << "a", "c", "t", "6", "d", "5" >>

s_act7d5 == << "a", "c", "t", "7", "d", "5" >>

s_act9d0 == << "a", "c", "t", "9", "d", "0" >>

s_a003_ == << "a", "0", "0", "3", "_" >>

s_a004_ == << "a", "0", "0", "4", "_" >>

s_zone1 == << "_", "z", "o", "n", "e", "1" >>

s_main_ == << "m", "a", "i", "n", "_" >>

s_st_ == << "s", "t", "_" >>

s_spst_ == << "s", "p", "s", "t", "_" >>

s_virtual_ == << "v", "i", "r", "t", "u", "a", "l", "_" >>

\* "シナリオ " (the code points U+30B7 U+30CA U+30EA U+30AA and a space)
s_scenario == << "U+30B7", "U+30CA", "U+30EA", "U+30AA", " " >>

\* "ストーリー"
s_story_name == << "U+30B9", "U+30C8", "U+30FC", "U+30EA", "U+30FC" >>

\* "隠しストーリー"
s_hidden_story_name == << "U+96A0", "U+3057", "U+30B9", "U+30C8", "U+30FC", "U+30EA", "U+30FC" >>

\* "逆行"
s_gyakkou == << "U+9006", "U+884C" >>

\* event_id in ['act4d0', 'act6d5', 'act7d5']
TypeAct4d0Events == { s_act4d0, s_act6d5, s_act7d5 }

\* ------------------------------------------------------------------------
\* The regular expressions of the source, as re.match evaluates them
\* ------------------------------------------------------------------------

NoMatch == [ ok |-> FALSE, pre |-> <<>>, num |-> <<>> ]

\* re.match(r'(.+)<tok>(\d+)', s): the greedy (.+) gives the last position
\* at which tok and a digit follow at least one character
MatchTokNum(s, tok) ==
    LET P == { i \in 2..Len(s) : MatchAt(s, i, tok) /\ DigitRunLen(s, i + Len(tok)) > 0 }
    IN  IF P = {} THEN NoMatch
        ELSE LET i == SetMax(P)
             IN  [ ok |-> TRUE, pre |-> SubSeq(s, 1, i - 1), num |-> DigitRun(s, i + Len(tok)) ]

\* re.match(r'(.+)_st(\d+)', s)
MatchSt(s) == MatchTokNum(s, s_st)

\* re.match(r'(.+)_hidden_st(\d+)', s)
MatchHiddenSt(s) == MatchTokNum(s, s_hidden_st)

\* re.match(r'(.+)_sub-(\d+)-(\d+)', s); num is the third group
MatchSub(s) ==
    LET Ok(i) == /\ MatchAt(s, i, s_sub)
                 /\ DigitRunLen(s, i + 5) > 0
                 /\ MatchAt(s, i + 5 + DigitRunLen(s, i + 5), <<"-">>)
                 /\ DigitRunLen(s, i + 6 + DigitRunLen(s, i + 5)) > 0
        P == { i \in 2..Len(s) : Ok(i) }
    IN  IF P = {} THEN NoMatch
        ELSE LET i == SetMax(P)
             IN  [ ok |-> TRUE, pre |-> SubSeq(s, 1, i - 1),
                   num |-> DigitRun(s, i + 6 + DigitRunLen(s, i + 5)) ]

\* re.match(r'level_(.+)_st(\d+)\.json$', f)
MatchLevelSt(f) ==
    IF ~(StartsWith(f, s_level_) /\ EndsWith(f, s_json) /\ Len(f) >= Len(s_level_) + Len(s_json))
    THEN NoMatch
    ELSE LET body == SubSeq(f, Len(s_level_) + 1, Len(f) - Len(s_json))
             P == { i \in 2..Len(body) :
                      /\ MatchAt(body, i, s_st)
                      /\ DigitRunLen(body, i + 3) > 0
                      /\ i + 3 + DigitRunLen(body, i + 3) = Len(body) + 1 }
         IN  IF P = {} THEN NoMatch
             ELSE LET i == SetMax(P)
                  IN  [ ok |-> TRUE, pre |-> SubSeq(body, 1, i - 1), num |-> From(body, i + 3) ]

\* is_ministory_story_file: re.match(r'level_.+_st\d+\.json$', f)
is_ministory_story_file(f) == MatchLevelSt(f).ok

\* file_name.replace('level_', '').replace('.json', '')
BaseName(f) == StrReplace(StrReplace(f, s_level_, <<>>), s_json, <<>>)

\* ------------------------------------------------------------------------
\* natural_sort_key and the sorts
\* ------------------------------------------------------------------------

\* re.split('([0-9]+)', text) with convert applied: text and numbers alternate,
\* a (possibly empty) text first and last
RECURSIVE natural_sort_key(_)
natural_sort_key(text) ==
    LET D == { i \in 1..Len(text) : text[i] \in DigitSet }
    IN  IF D = {} THEN << [ num |-> FALSE, n |-> 0, s |-> Lower(text) ] >>
        ELSE LET p == SetMin(D)
                 run == DigitRun(text, p)
             IN  << [ num |-> FALSE, n |-> 0, s |-> Lower(SubSeq(text, 1, p - 1)) ],
                    [ num |-> TRUE, n |-> DigitsToInt(run), s |-> <<>> ] >>
                 \o natural_sort_key(From(text, p + Len(run)))

\* a < b for two elements of a key at the same position (positions of equal
\* parity hold the same type, so int is never compared with str)
KeyElemLess(a, b) == IF a.num THEN a.n < b.n ELSE StrLess(a.s, b.s)

\* a < b for two lists
RECURSIVE KeyLess(_, _)
KeyLess(a, b) ==
    IF Len(b) = 0 THEN FALSE
    ELSE IF Len(a) = 0 THEN TRUE
    ELSE IF a[1] = b[1] THEN KeyLess(Tail(a), Tail(b))
    ELSE KeyElemLess(a[1], b[1])

\* a < b as sorted() without the key decides it
PlainLess(a, b) == StrLess(a, b)

\* natural_sort_key(a) < natural_sort_key(b)
NaturalLess(a, b) == KeyLess(natural_sort_key(a), natural_sort_key(b))

\* x put into the sorted list acc behind every element that is not greater
RECURSIVE InsertNatural(_, _)
InsertNatural(acc, x) ==
    IF Len(acc) = 0 THEN <<x>>
    ELSE IF NaturalLess(x, Head(acc)) THEN <<x>> \o acc
    ELSE <<Head(acc)>> \o InsertNatural(Tail(acc), x)

RECURSIVE SortNaturalInto(_, _)
SortNaturalInto(acc, xs) ==
    IF Len(xs) = 0 THEN acc ELSE SortNaturalInto(InsertNatural(acc, Head(xs)), Tail(xs))

\* sorted(xs, key=natural_sort_key): stable
SortedNatural(xs) == SortNaturalInto(<<>>, xs)

RECURSIVE InsertAlpha(_, _)
InsertAlpha(acc, x) ==
    IF Len(acc) = 0 THEN <<x>>
    ELSE IF StrLess(x, Head(acc)) THEN <<x>> \o acc
    ELSE <<Head(acc)>> \o InsertAlpha(Tail(acc), x)

RECURSIVE SortAlphaInto(_, _)
SortAlphaInto(acc, xs) ==
    IF Len(xs) = 0 THEN acc ELSE SortAlphaInto(InsertAlpha(acc, Head(xs)), Tail(xs))

\* sorted(xs) of a list of str: stable
SortedAlpha(xs) == SortAlphaInto(<<>>, xs)

\* the elements of a list
Range(xs) == { xs[i] : i \in 1..Len(xs) }

\* the list left as it is
NotReversed(xs) == xs

\* list(reversed(xs))
Reverse(xs) == [ i \in 1..Len(xs) |-> xs[Len(xs) + 1 - i] ]

\* ------------------------------------------------------------------------
\* Stage records and the stage pool
\* ------------------------------------------------------------------------

\* StageInfo; level_id is <<>> for None and <<text>> otherwise,
\* unlock_conditions lists the stage ids of the conditions
StageInfo(id, code, name, type, conds, zone, level) ==
    [ stage_id |-> id, code |-> code, name |-> name, stage_type |-> type,
      danger_level |-> <<>>, unlock_conditions |-> conds, zone_id |-> zone,
      level_id |-> level ]

\* stages.get(stage_id): <<>> for None, else <<the record>>; stages is the
\* dict as the list of its values in insertion order
StageGet(stages, id) ==
    LET I == { i \in 1..Len(stages) : stages[i].stage_id = id }
    IN  IF I = {} THEN <<>> ELSE << stages[SetMin(I)] >>

StageIds(stages) == [ i \in 1..Len(stages) |-> stages[i].stage_id ]

\* the matcher without its look at level_id
get_event_related_stages_by_id(event_id, stages) ==
    LET Related(st) ==
            \/ StartsWith(st.stage_id, event_id)
            \/ event_id = s_act3d0 /\ StartsWith(st.stage_id, s_a003_)
            \/ event_id = s_act4d0 /\ StartsWith(st.stage_id, s_a004_)
    IN  SelectSeq(stages, Related)

get_event_related_stages(event_id, stages) ==
    LET level(st) == IF st.level_id = <<>> THEN <<>> ELSE st.level_id[1]
        Related(st) ==
            \/ StartsWith(st.stage_id, event_id)
            \/ Contains(Upper(level(st)), Upper(event_id))
            \/ event_id = s_act3d0 /\ StartsWith(st.stage_id, s_a003_)
            \/ event_id = s_act4d0 /\ StartsWith(st.stage_id, s_a004_)
    IN  SelectSeq(stages, Related)

\* the graph with every unlock condition as an edge
build_stage_dependency_graph_unrestricted(stages) ==
    [ i \in 1..Len(stages) |->
        [ node |-> stages[i].stage_id, deps |-> stages[i].unlock_conditions ] ]

\* the dict of build_stage_dependency_graph as the list, in insertion order,
\* of [node, deps]
build_stage_dependency_graph(stages) ==
    LET InPool(id) == \E j \in 1..Len(stages) : stages[j].stage_id = id
    IN  [ i \in 1..Len(stages) |->
            [ node |-> stages[i].stage_id,
              deps |-> SelectSeq(stages[i].unlock_conditions, InPool) ] ]

\* ------------------------------------------------------------------------
\* Filename classification
\* ------------------------------------------------------------------------

\* the key of an _end file with the number of the sub-stage as written
EndStageIdWithoutPadding(base_name) ==
    LET stage_id == StrReplace(base_name, s_end, <<>>)
        sub_match == MatchSub(stage_id)
    IN  IF sub_match.ok THEN sub_match.pre \o <<"_", "s">> \o sub_match.num
        ELSE stage_id

\* the key of an _end file: '<p>_sub-<m>-<n>' becomes '<p>_s<n:02>'
EndStageId(base_name) ==
    LET stage_id == StrReplace(base_name, s_end, <<>>)
        sub_match == MatchSub(stage_id)
    IN  IF sub_match.ok THEN sub_match.pre \o <<"_", "s">> \o Zfill2(sub_match.num)
        ELSE stage_id

\* the key of a story-only file with the hidden story numbered as its file is
StoryOnlyStageIdOneBased(event_id, event_type, base_name, first) ==
    IF Contains(base_name, s_hidden_st)
    THEN LET m == MatchHiddenSt(base_name)
         IN  IF m.ok THEN s_story_ \o IntToStr(DigitsToInt(m.num)) ELSE first
    ELSE IF Contains(base_name, s_st) /\ event_type # "MINISTORY"
    THEN LET m == MatchSt(base_name)
         IN  IF ~m.ok THEN first
             ELSE IF event_id \in TypeAct4d0Events THEN m.pre \o <<"_">> \o Zfill2(m.num)
             ELSE m.pre \o s_st \o Zfill2(m.num)
    ELSE first

\* the key of a story-only file after the _hidden_st and _st rewrites;
\* first is the key assigned before them
StoryOnlyStageId(event_id, event_type, base_name, first) ==
    IF Contains(base_name, s_hidden_st)
    THEN LET m == MatchHiddenSt(base_name)
         IN  IF m.ok THEN s_story_ \o IntToStr(DigitsToInt(m.num) - 1) ELSE first
    ELSE IF Contains(base_name, s_st) /\ event_type # "MINISTORY"
    THEN LET m == MatchSt(base_name)
         IN  IF ~m.ok THEN first
             ELSE IF event_id \in TypeAct4d0Events THEN m.pre \o <<"_">> \o Zfill2(m.num)
             ELSE m.pre \o s_st \o Zfill2(m.num)
    ELSE first

\* mapped_stage_id.replace('act3d0_', 'a003_') for event act3d0
TransformStageId(event_id, stage_id) ==
    IF event_id = s_act3d0 THEN StrReplace(stage_id, s_act3d0 \o <<"_">>, s_a003_)
    ELSE stage_id

\* story_stage_mapping[file_name] of get_story_order_for_event
ClassifyFile(event_id, event_type, file_name) ==
    LET base_name == BaseName(file_name)
    IN  IF Contains(base_name, s_beg)
        THEN [ stage_id |-> TransformStageId(event_id, StrReplace(base_name, s_beg, <<>>)),
               story_type |-> "beg" ]
        ELSE IF Contains(base_name, s_end)
        THEN [ stage_id |-> TransformStageId(event_id, EndStageId(base_name)),
               story_type |-> "end" ]
        ELSE LET m == MatchSt(base_name)
                 first == IF event_type = "MINISTORY" /\ Contains(base_name, s_st) /\ m.ok
                          THEN m.pre \o <<"_">> \o m.num
                          ELSE base_name
             IN  [ stage_id |-> TransformStageId(event_id,
                                    StoryOnlyStageId(event_id, event_type, base_name, first)),
                   story_type |-> "story" ]

\* story_stage_mapping[file_name] of get_remaining_story_files_with_proper_mapping
ClassifyRemainingFile(event_id, event_type, file_name) ==
    LET base_name == BaseName(file_name)
    IN  IF Contains(base_name, s_beg)
        THEN [ stage_id |-> TransformStageId(event_id, StrReplace(base_name, s_beg, <<>>)),
               story_type |-> "beg" ]
        ELSE IF Contains(base_name, s_end)
        THEN [ stage_id |-> TransformStageId(event_id, EndStageId(base_name)),
               story_type |-> "end" ]
        ELSE [ stage_id |-> TransformStageId(event_id,
                                StoryOnlyStageId(event_id, event_type, base_name, base_name)),
               story_type |-> "story" ]

\* the stage key and is_battle_story of a manifest-matched file
ClassifyWordcountFile(event_id, file_name) ==
    LET base_name == BaseName(file_name)
    IN  IF Contains(base_name, s_beg)
        THEN [ stage_id |-> TransformStageId(event_id, StrReplace(base_name, s_beg, <<>>)),
               is_battle_story |-> TRUE ]
        ELSE IF Contains(base_name, s_end)
        THEN [ stage_id |-> TransformStageId(event_id, EndStageId(base_name)),
               is_battle_story |-> TRUE ]
        ELSE [ stage_id |-> TransformStageId(event_id, base_name), is_battle_story |-> FALSE ]

\* ------------------------------------------------------------------------
\* Synthesized stages
\* ------------------------------------------------------------------------

Entry(file_name, stage_info, is_battle_story) ==
    [ file |-> file_name, stage |-> stage_info, battle |-> is_battle_story ]

\* the prefix of the first pool stage whose code has a '-', else "TW"
EventPrefix(event_stages) ==
    LET I == { i \in 1..Len(event_stages) :
                 Len(event_stages[i].code) > 0 /\ Contains(event_stages[i].code, <<"-">>) }
    IN  IF I = {} THEN <<"T", "W">> ELSE SplitFirst(event_stages[SetMin(I)].code, "-")

\* the code '<prefix>-ST-<n>' or '<prefix>-S<text>' of a key whose last token starts with S
HiddenStageCode(event_stages, upper_token) ==
    LET stage_num == Tail(upper_token)
    IN  IF IntParses(stage_num)
        THEN EventPrefix(event_stages) \o <<"-", "S", "T", "-">> \o IntToStr(ParseInt(stage_num))
        ELSE EventPrefix(event_stages) \o <<"-", "S">> \o stage_num

HiddenStage(event_id, mapped_stage_id, code) ==
    StageInfo(mapped_stage_id, code, s_hidden_story_name, "HIDDEN_STORY", <<>>,
              event_id \o s_zone1, <<>>)

\* the virtual stage of the leftover sweep of get_story_order_for_event;
\* raised when int(story_num) raises ValueError
VirtualStageOfSweep(event_id, event_stages, mapped_stage_id) ==
    LET token == Upper(SplitLast(mapped_stage_id, "_"))
    IN  IF StartsWith(token, <<"S">>)
        THEN [ raised |-> FALSE,
               stage |-> HiddenStage(event_id, mapped_stage_id, HiddenStageCode(event_stages, token)) ]
        ELSE IF StartsWith(mapped_stage_id, s_story_)
        THEN LET story_num == SplitLast(mapped_stage_id, "_")
             IN  IF IntParses(story_num)
                 THEN [ raised |-> FALSE,
                        stage |-> HiddenStage(event_id, mapped_stage_id,
                                      s_gyakkou \o IntToStr(ParseInt(story_num) + 1)) ]
                 ELSE [ raised |-> TRUE, stage |-> HiddenStage(event_id, mapped_stage_id, token) ]
        ELSE [ raised |-> FALSE, stage |-> HiddenStage(event_id, mapped_stage_id, token) ]

\* the virtual stage of get_remaining_story_files_with_proper_mapping
VirtualStageOfRemaining(event_id, event_stages, mapped_stage_id) ==
    LET token == Upper(SplitLast(mapped_stage_id, "_"))
    IN  IF StartsWith(mapped_stage_id, s_story_)
        THEN LET story_num == SplitLast(mapped_stage_id, "_")
             IN  IF IntParses(story_num)
                 THEN [ raised |-> FALSE,
                        stage |-> HiddenStage(event_id, mapped_stage_id,
                                      s_gyakkou \o IntToStr(ParseInt(story_num) + 1)) ]
                 ELSE [ raised |-> TRUE, stage |-> HiddenStage(event_id, mapped_stage_id, token) ]
        ELSE IF StartsWith(token, <<"S">>)
        THEN [ raised |-> FALSE,
               stage |-> HiddenStage(event_id, mapped_stage_id, HiddenStageCode(event_stages, token)) ]
        ELSE [ raised |-> FALSE, stage |-> HiddenStage(event_id, mapped_stage_id, token) ]

\* the virtual stage of a manifest-matched file without a pool stage
VirtualStageOfWordcount(event_id, stage_id, base_name) ==
    LET m == MatchSt(base_name)
        last == Upper(SplitLast(base_name, "_"))
        stage_code ==
            IF Contains(base_name, s_st)
            THEN IF m.ok THEN <<"S", "T", "-">> \o IntToStr(DigitsToInt(m.num)) ELSE last
            ELSE IF SplitCount(base_name, "_") > 1
            THEN IF IsDigit(last) THEN <<"O", "R", "-">> \o IntToStr(DigitsToInt(last))
                 ELSE IF StartsWith(last, <<"E", "X">>) THEN <<"E", "X", "-">> \o From(last, 3)
                 ELSE last
            ELSE <<"S", "T", "O", "R", "Y">>
        stage_name ==
            IF Contains(base_name, s_st) /\ m.ok
            THEN s_scenario \o IntToStr(DigitsToInt(m.num))
            ELSE s_story_name
    IN  StageInfo(stage_id, stage_code, stage_name, "STORY", <<>>, event_id \o s_zone1, <<>>)

\* the virtual stage of a level_<x>_st<NN>.json file of a story-only event
ScenarioStage(event_id, stage_id, stage_num, type) ==
    StageInfo(stage_id, <<"S", "T", "-">> \o IntToStr(DigitsToInt(stage_num)),
              s_scenario \o IntToStr(DigitsToInt(stage_num)), type, <<>>,
              event_id \o s_zone1, <<>>)

\* ------------------------------------------------------------------------
\* Word-count manifest path
\* ------------------------------------------------------------------------

\* get_event_story_order: the file name of each path of the event's mapping,
\* in the mapping's order, without a leading 'level_'; wordcount_data is the
\* dict as the list of [event_id, paths]
get_event_story_order(event_id, data) ==
    LET I == { i \in 1..Len(data) : data[i].event_id = event_id }
        Name(path) == LET filename == SplitLast(path, "/")
                      IN  IF StartsWith(filename, s_level_) THEN From(filename, 7) ELSE filename
    IN  IF I = {} THEN <<>>
        ELSE LET paths == data[SetMin(I)].paths
             IN  [ k \in 1..Len(paths) |-> Name(paths[k]) ]

\* story_file_map.get(key): <<>> for a missing key, else <<file_name>>; a later
\* file overwrites an earlier one under the same base name or short name
StoryFileMapGet(event_id, story_files, key) ==
    LET Keys(f) == LET base_name == BaseName(f)
                   IN  IF StartsWith(base_name, event_id \o <<"_">>)
                       THEN { base_name, From(base_name, Len(event_id) + 2) }
                       ELSE { base_name }
        I == { i \in 1..Len(story_files) : key \in Keys(story_files[i]) }
    IN  IF I = {} THEN <<>> ELSE << story_files[SetMax(I)] >>

\* matched_file of one manifest key, taken to be level_<key>.json when the
\* file list has no match
MatchedFileOrNamed(event_id, story_files, wc_filename) ==
    LET direct == StoryFileMapGet(event_id, story_files, wc_filename)
        prefixed == s_level_ \o wc_filename \o s_json
    IN  IF direct # <<>> THEN direct
        ELSE IF prefixed \in Range(story_files) THEN << prefixed >>
        ELSE IF StartsWith(wc_filename, event_id \o <<"_">>)
                /\ StoryFileMapGet(event_id, story_files, From(wc_filename, Len(event_id) + 2)) # <<>>
        THEN StoryFileMapGet(event_id, story_files, From(wc_filename, Len(event_id) + 2))
        ELSE << prefixed >>

\* matched_file of one manifest key: <<>> for None
MatchedFile(event_id, story_files, wc_filename) ==
    LET direct == StoryFileMapGet(event_id, story_files, wc_filename)
        prefixed == s_level_ \o wc_filename \o s_json
    IN  IF direct # <<>> THEN direct
        ELSE IF prefixed \in Range(story_files) THEN << prefixed >>
        ELSE IF StartsWith(wc_filename, event_id \o <<"_">>)
        THEN StoryFileMapGet(event_id, story_files, From(wc_filename, Len(event_id) + 2))
        ELSE <<>>

\* the entry appended for a manifest-matched file
WordcountEntry(event_id, event_stages, matched_file) ==
    LET c == ClassifyWordcountFile(event_id, matched_file)
        found == StageGet(event_stages, c.stage_id)
    IN  Entry(matched_file,
              IF found # <<>> THEN found[1]
              ELSE VirtualStageOfWordcount(event_id, c.stage_id, BaseName(matched_file)),
              c.is_battle_story)

\* the loop over wordcount_order inserting each matched entry at the front
RECURSIVE WordcountLoopPrepending(_, _, _, _, _)
WordcountLoopPrepending(event_id, event_stages, story_files, order, ordered) ==
    IF Len(order) = 0 THEN ordered
    ELSE LET m == MatchedFile(event_id, story_files, Head(order))
             processed == { ordered[i].file : i \in 1..Len(ordered) }
         IN  WordcountLoopPrepending(event_id, event_stages, story_files, Tail(order),
                 IF m # <<>> /\ m[1] \notin processed
                 THEN << WordcountEntry(event_id, event_stages, m[1]) >> \o ordered
                 ELSE ordered)

\* the loop over wordcount_order: ordered_stories after it
RECURSIVE WordcountLoop(_, _, _, _, _)
WordcountLoop(event_id, event_stages, story_files, order, ordered) ==
    IF Len(order) = 0 THEN ordered
    ELSE LET m == MatchedFile(event_id, story_files, Head(order))
             processed == { ordered[i].file : i \in 1..Len(ordered) }
         IN  WordcountLoop(event_id, event_stages, story_files, Tail(order),
                 IF m # <<>> /\ m[1] \notin processed
                 THEN Append(ordered, WordcountEntry(event_id, event_stages, m[1]))
                 ELSE ordered)

\* get_remaining_story_files_with_proper_mapping: the entries appended for
\* remaining_files, and whether one of them raised
RemainingEntries(event_id, stages, remaining_files, event_type) ==
    LET event_stages == get_event_related_stages(event_id, stages)
        One(f) == LET c == ClassifyRemainingFile(event_id, event_type, f)
                      found == StageGet(event_stages, c.stage_id)
                      v == VirtualStageOfRemaining(event_id, event_stages, c.stage_id)
                  IN  IF found # <<>>
                      THEN [ raised |-> FALSE,
                             entry |-> Entry(f, found[1], c.story_type \in {"beg", "end"}) ]
                      ELSE [ raised |-> v.raised,
                             entry |-> Entry(f, v.stage, c.story_type \in {"beg", "end"}) ]
        each == [ i \in 1..Len(remaining_files) |-> One(remaining_files[i]) ]
    IN  [ raised |-> \E i \in 1..Len(each) : each[i].raised,
          stories |-> [ i \in 1..Len(each) |-> each[i].entry ] ]

\* remaining_files of get_story_order_from_wordcount, before the sort
FilesNotIn(story_files, done) ==
    LET Left(f) == f \notin done IN SelectSeq(story_files, Left)

get_story_order_from_wordcount(event_id, stages, story_files, wordcount_order, event_type) ==
    LET event_stages == get_event_related_stages(event_id, stages)
        ordered == WordcountLoop(event_id, event_stages, story_files, wordcount_order, <<>>)
        remaining_files == FilesNotIn(story_files, { ordered[i].file : i \in 1..Len(ordered) })
        rest == RemainingEntries(event_id, stages, SortedNatural(remaining_files), event_type)
    IN  IF Len(remaining_files) = 0 THEN [ raised |-> FALSE, stories |-> ordered ]
        ELSE [ raised |-> rest.raised, stories |-> ordered \o rest.stories ]

\* ------------------------------------------------------------------------
\* Story-only events
\* ------------------------------------------------------------------------

\* the virtual stages coded with the digits as written in the file name
get_ministory_stages_keeping_digits(event_id, story_files) ==
    LET sorted == SortedAlpha(SelectSeq(story_files, is_ministory_story_file))
    IN  [ i \in 1..Len(sorted) |->
            LET m == MatchLevelSt(sorted[i])
            IN  Entry(sorted[i],
                      [ ScenarioStage(event_id, m.pre \o s_st \o m.num, m.num, "MINISTORY_STORY")
                          EXCEPT !.code = <<"S", "T", "-">> \o m.num ],
                      FALSE) ]

get_ministory_stages(event_id, story_files) ==
    LET sorted == SortedAlpha(SelectSeq(story_files, is_ministory_story_file))
    IN  [ i \in 1..Len(sorted) |->
            LET m == MatchLevelSt(sorted[i])
            IN  Entry(sorted[i],
                      ScenarioStage(event_id, m.pre \o s_st \o m.num, m.num, "MINISTORY_STORY"),
                      FALSE) ]

handle_type_act4d0_events(event_id, story_files) ==
    LET Story(f) == StartsWith(f, s_level_ \o event_id \o s_st) /\ EndsWith(f, s_json)
        Matches(f) == MatchLevelSt(f).ok
        sorted == SelectSeq(SortedAlpha(SelectSeq(story_files, Story)), Matches)
    IN  [ i \in 1..Len(sorted) |->
            LET m == MatchLevelSt(sorted[i])
            IN  Entry(sorted[i],
                      ScenarioStage(event_id, event_id \o s_st \o m.num, m.num, "TYPE_ACT4D0_STORY"),
                      FALSE) ]

\* ------------------------------------------------------------------------
\* Graph-based path
\* ------------------------------------------------------------------------

Indices(n) == [ i \in 1..n |-> i ]

\* in_degree after the counting loop of topological_sort
InitialInDegree(graph) ==
    [ id \in { graph[i].node : i \in 1..Len(graph) } |->
        Cardinality(UNION { { <<i, j>> : j \in { k \in 1..Len(graph[i].deps) :
                                                   graph[i].deps[k] = id } } :
                            i \in 1..Len(graph) }) ]

\* the initial queue built by iterating a set of the nodes instead of the dict:
\* its order follows the str hashes of the process
InitialQueueBySeed(graph, degree) ==
    LET Free(i) == degree[graph[i].node] = 0
        I == SelectSeq(Indices(Len(graph)), Free)
        q == [ k \in 1..Len(I) |-> graph[I[k]].node ]
    IN  IF hash_seed = 1 THEN Reverse(q) ELSE q

\* queue = [node for node, degree in in_degree.items() if degree == 0]
InitialQueue(graph, degree) ==
    LET Free(i) == degree[graph[i].node] = 0
        I == SelectSeq(Indices(Len(graph)), Free)
    IN  [ k \in 1..Len(I) |-> graph[I[k]].node ]

\* the inner loop of topological_sort over the dependencies of the popped node
RECURSIVE Release(_, _, _)
Release(deps, degree, q) ==
    IF Len(deps) = 0 THEN [ in_degree |-> degree, queue |-> q ]
    ELSE LET d == Head(deps)
             lowered == [ degree EXCEPT ![d] = @ - 1 ]
         IN  IF d \in DOMAIN degree
             THEN Release(Tail(deps), lowered, IF lowered[d] = 0 THEN Append(q, d) ELSE q)
             ELSE Release(Tail(deps), degree, q)

\* graph.get(node, [])
GraphDeps(graph, node) ==
    LET I == { i \in 1..Len(graph) : graph[i].node = node }
    IN  IF I = {} THEN <<>> ELSE graph[SetMin(I)].deps

\* ordered_stages of get_story_order_for_event from the reversed topological order
StageOrder(graph, event_stages, reversed) ==
    LET NoDeps(i) == Len(graph[i].deps) = 0
        HasDeps(i) == Len(graph[i].deps) > 0
        no_idx == SelectSeq(Indices(Len(graph)), NoDeps)
        stages_with_no_deps == [ k \in 1..Len(no_idx) |-> graph[no_idx[k]].node ]
        stages_with_deps == { graph[i].node : i \in { j \in 1..Len(graph) : HasDeps(j) } }
        Dependent(s) == s \in stages_with_deps
    IN  IF Len(stages_with_no_deps) > 0 /\ stages_with_deps # {}
        THEN SortedNatural(stages_with_no_deps) \o SelectSeq(reversed, Dependent)
        ELSE IF stages_with_deps = {} THEN SortedNatural(StageIds(event_stages))
        ELSE reversed

\* the allow-list applied to the stage id alone, whatever the event
NeedsVirtualStoryInAnyEvent(event_id, stage_id) ==
    stage_id \in { s_act9d0 \o <<"_", "0", "7">>, s_act9d0 \o <<"_", "0", "8">> }

\* stages of event act9d0 that get an entry without a story file
NeedsVirtualStory(event_id, stage_id) ==
    /\ event_id = s_act9d0
    /\ stage_id \in { s_act9d0 \o <<"_", "0", "7">>, s_act9d0 \o <<"_", "0", "8">> }

\* the entries of one stage with the battle files before the story-only files
StageEntriesBattleFirst(event_id, stage_info, story_files, mapping) ==
    LET Of(type) == { i \in 1..Len(story_files) :
                        /\ mapping[i].stage_id = stage_info.stage_id
                        /\ mapping[i].story_type = type }
        IsStory(i) == i \in Of("story")
        story_idx == SelectSeq(Indices(Len(story_files)), IsStory)
    IN  (IF Of("beg") # {} THEN << Entry(story_files[SetMax(Of("beg"))], stage_info, TRUE) >>
         ELSE <<>>)
        \o (IF Of("end") # {} THEN << Entry(story_files[SetMax(Of("end"))], stage_info, TRUE) >>
            ELSE <<>>)
        \o [ k \in 1..Len(story_idx) |-> Entry(story_files[story_idx[k]], stage_info, FALSE) ]

\* the entries one iteration of the loop over ordered_stages appends
StageEntries(event_id, stage_info, story_files, mapping) ==
    LET Of(type) == { i \in 1..Len(story_files) :
                        /\ mapping[i].stage_id = stage_info.stage_id
                        /\ mapping[i].story_type = type }
        IsStory(i) == i \in Of("story")
        story_idx == SelectSeq(Indices(Len(story_files)), IsStory)
    IN  [ k \in 1..Len(story_idx) |-> Entry(story_files[story_idx[k]], stage_info, FALSE) ]
        \o (IF Of("beg") # {} THEN << Entry(story_files[SetMax(Of("beg"))], stage_info, TRUE) >>
            ELSE <<>>)
        \o (IF Of("end") # {} THEN << Entry(story_files[SetMax(Of("end"))], stage_info, TRUE) >>
            ELSE <<>>)
        \o (IF /\ Of("story") = {} /\ Of("beg") = {} /\ Of("end") = {}
               /\ NeedsVirtualStory(event_id, stage_info.stage_id)
            THEN << Entry(s_virtual_ \o stage_info.stage_id \o s_end, stage_info, TRUE) >>
            ELSE <<>>)

\* ordered_stories after the loop over ordered_stages
RECURSIVE StageLoop(_, _, _, _, _)
StageLoop(event_id, event_stages, order, story_files, mapping) ==
    IF Len(order) = 0 THEN <<>>
    ELSE LET found == StageGet(event_stages, Head(order))
         IN  (IF found = <<>> THEN <<>>
              ELSE StageEntries(event_id, found[1], story_files, mapping))
             \o StageLoop(event_id, event_stages, Tail(order), story_files, mapping)

\* the leftover sweep giving every leftover file a synthesized stage, without
\* the lookup in the pool
SweepEntriesVirtualOnly(event_id, event_stages, story_files, mapping, ordered) ==
    LET matched_files == { ordered[i].file : i \in 1..Len(ordered) }
        remaining_files == SortedAlpha(FilesNotIn(story_files, matched_files))
        Map(f) == mapping[CHOOSE i \in 1..Len(story_files) : story_files[i] = f]
        One(f) == LET c == Map(f)
                      v == VirtualStageOfSweep(event_id, event_stages, c.stage_id)
                  IN  [ raised |-> v.raised,
                        entry |-> Entry(f, v.stage, c.story_type \in {"beg", "end"}) ]
        each == [ i \in 1..Len(remaining_files) |-> One(remaining_files[i]) ]
    IN  [ raised |-> \E i \in 1..Len(each) : each[i].raised,
          stories |-> [ i \in 1..Len(each) |-> each[i].entry ] ]

\* the leftover sweep of get_story_order_for_event: the entries appended for the
\* files not yet emitted, and whether one of them raised
SweepEntries(event_id, event_stages, story_files, mapping, ordered) ==
    LET matched_files == { ordered[i].file : i \in 1..Len(ordered) }
        remaining_files == SortedAlpha(FilesNotIn(story_files, matched_files))
        Map(f) == mapping[CHOOSE i \in 1..Len(story_files) : story_files[i] = f]
        One(f) == LET c == Map(f)
                      found == StageGet(event_stages, c.stage_id)
                      v == VirtualStageOfSweep(event_id, event_stages, c.stage_id)
                  IN  IF found # <<>>
                      THEN [ raised |-> FALSE,
                             entry |-> Entry(f, found[1], c.story_type \in {"beg", "end"}) ]
                      ELSE [ raised |-> v.raised,
                             entry |-> Entry(f, v.stage, c.story_type \in {"beg", "end"}) ]
        each == [ i \in 1..Len(remaining_files) |-> One(remaining_files[i]) ]
    IN  [ raised |-> \E i \in 1..Len(each) : each[i].raised,
          stories |-> [ i \in 1..Len(each) |-> each[i].entry ] ]

\* ------------------------------------------------------------------------
\* Main story: get_main_story_order_for_chapter
\* ------------------------------------------------------------------------

\* f'{p}{chapter:02d}-'
ChapterPrefix(p, chapter) == p \o Zfill2(NatToStr(chapter)) \o << "-" >>

\* chapter_stages: the stages main_XX-, st_XX- and spst_XX- of the chapter
ChapterStages(chapter, stages) ==
    LET OfChapter(st) ==
            \/ StartsWith(st.stage_id, ChapterPrefix(s_main_, chapter))
            \/ StartsWith(st.stage_id, ChapterPrefix(s_st_, chapter))
            \/ StartsWith(st.stage_id, ChapterPrefix(s_spst_, chapter))
    IN  SelectSeq(stages, OfChapter)

\* story_stage_mapping[file_name]; story_type "none" for a file without a key
MainClassifyFile(file_name) ==
    LET base_name == BaseName(file_name)
        unmapped == [ stage_id |-> <<>>, story_type |-> "none" ]
    IN  IF StartsWith(base_name, s_main_)
        THEN IF Contains(base_name, s_beg)
             THEN [ stage_id |-> StrReplace(base_name, s_beg, <<>>), story_type |-> "beg" ]
             ELSE IF Contains(base_name, s_end)
             THEN [ stage_id |-> StrReplace(base_name, s_end, <<>>), story_type |-> "end" ]
             ELSE unmapped
        ELSE IF StartsWith(base_name, s_st_) \/ StartsWith(base_name, s_spst_)
        THEN [ stage_id |-> base_name, story_type |-> "story" ]
        ELSE unmapped

\* the entries of one stage: its interlude files, then its last _beg file,
\* then its last _end file
MainStageEntries(stage_info, story_files, mapping) ==
    LET Of(type) == { i \in 1..Len(story_files) :
                        /\ mapping[i].stage_id = stage_info.stage_id
                        /\ mapping[i].story_type = type }
        IsStory(i) == i \in Of("story")
        story_idx == SelectSeq(Indices(Len(story_files)), IsStory)
    IN  [ k \in 1..Len(story_idx) |-> Entry(story_files[story_idx[k]], stage_info, FALSE) ]
        \o (IF Of("beg") # {} THEN << Entry(story_files[SetMax(Of("beg"))], stage_info, TRUE) >>
            ELSE <<>>)
        \o (IF Of("end") # {} THEN << Entry(story_files[SetMax(Of("end"))], stage_info, TRUE) >>
            ELSE <<>>)

\* the loop over ordered_stages of get_main_story_order_for_chapter
RECURSIVE MainStageLoop(_, _, _, _)
MainStageLoop(chapter_stages, order, story_files, mapping) ==
    IF Len(order) = 0 THEN <<>>
    ELSE LET found == StageGet(chapter_stages, Head(order))
         IN  (IF found = <<>> THEN <<>>
              ELSE MainStageEntries(found[1], story_files, mapping))
             \o MainStageLoop(chapter_stages, Tail(order), story_files, mapping)

\* ------------------------------------------------------------------------
\* Inputs
\* ------------------------------------------------------------------------

\* at most this many rows in the stage table
MaxStages == 3

\* at most this many rows in the stage table of an event that has a manifest entry
MaxStagesWithManifest == 2

\* at most this many story files in the event's directory
MaxFiles == 3

\* at most this many paths in the event's entry of the manifest
MaxKeys == 2

\* the lists without repetition of at most n elements of S
RECURSIVE Arrangements(_, _)
Arrangements(S, n) ==
    IF n = 0 THEN { <<>> }
    ELSE LET P == Arrangements(S, n - 1)
         IN  P \cup { Append(t, x) : <<t, x>> \in
                        { <<u, y>> \in P \X S : Len(u) = n - 1 /\ y \notin Range(u) } }

\* the sublists (in the list's order) of at most n elements of xs
SubLists(xs, n) ==
    LET Pick(I) == LET Chosen(i) == i \in I IN SelectSeq(Indices(Len(xs)), Chosen)
    IN  { [ k \in 1..Len(Pick(I)) |-> xs[Pick(I)[k]] ] :
            I \in { J \in SUBSET (1..Len(xs)) : Cardinality(J) <= n } }

s_ev == << "e", "v" >>

s_evX == << "e", "v", "X" >>

id_ev_1 == << "e", "v", "_", "1" >>

id_ev_2 == << "e", "v", "_", "2" >>

id_ev_10 == << "e", "v", "_", "1", "0" >>

id_evX_01 == << "e", "v", "X", "_", "0", "1" >>

id_evX_st01 == << "e", "v", "X", "_", "s", "t", "0", "1" >>

id_story_abc == << "s", "t", "o", "r", "y", "_", "a", "b", "c" >>

id_act4d0_st01 == s_act4d0 \o << "_", "s", "t", "0", "1" >>

id_act4d0_st02 == s_act4d0 \o << "_", "s", "t", "0", "2" >>

id_act4d0_01 == s_act4d0 \o << "_", "0", "1" >>

id_a004_01 == s_a004_ \o << "0", "1" >>

\* a row of stage_table.json as load_stage_table builds it
Row(id, code, conds) == StageInfo(id, code, <<"n">>, "MAIN", conds, <<"z">>, <<>>)

File(body) == s_level_ \o body \o s_json

EventIds == { s_ev, s_evX, s_act4d0 }

\* rows the stage table may hold for an event
StageRows(e) ==
    IF e = s_ev
    THEN { Row(id_ev_1, << "E", "V", "-", "1" >>, <<>>),
           Row(id_ev_1, << "E", "V", "-", "1" >>, << id_ev_2 >>),
           Row(id_ev_2, << "E", "V", "-", "2" >>, <<>>),
           Row(id_ev_2, << "E", "V", "-", "2" >>, << id_ev_1 >>),
           Row(id_ev_2, << "E", "V", "-", "2" >>, << id_ev_10 >>),
           Row(id_ev_10, << "E", "V", "-", "1", "0" >>, <<>>),
           Row(id_ev_10, << "E", "V", "-", "1", "0" >>, << id_ev_2 >>) }
    ELSE IF e = s_evX
    THEN { Row(id_evX_01, << "E", "X", "-", "1" >>, <<>>),
           Row(id_ev_1, << "E", "V", "-", "1" >>, <<>>) }
    ELSE { Row(id_a004_01, << "A", "-", "1" >>, <<>>) }

\* stage tables of at most n rows: a dict has one row per stage id
StageTables(e, n) ==
    { t \in Arrangements(StageRows(e), n) :
        \A i, j \in 1..Len(t) : t[i].stage_id = t[j].stage_id => i = j }

\* story files the event's directory may hold
FileNames(e) ==
    IF e = s_ev
    THEN << File(id_ev_1 \o s_beg), File(id_ev_2 \o s_beg), File(id_ev_10 \o s_beg) >>
    ELSE IF e = s_evX
    THEN << File(id_evX_01), File(id_evX_01 \o s_beg), File(id_evX_01 \o s_end),
            File(id_evX_st01), File(id_story_abc) >>
    ELSE << File(id_act4d0_st01), File(id_act4d0_st02), File(id_act4d0_01 \o s_beg) >>

\* get_story_files returns the directory's *.json sorted
StoryFileLists(e) == SubLists(SortedAlpha(FileNames(e)), MaxFiles)

\* paths the event's entry of wordcount.json may hold
ManifestPaths(e) ==
    IF e = s_ev
    THEN { s_ev \o <<"/">> \o s_level_ \o id_ev_2 \o s_beg,
           <<"1">> \o s_beg }
    ELSE IF e = s_evX
    THEN { id_evX_01 \o s_end,
           <<"0", "1">> \o s_beg }
    ELSE {}

\* the event's entries of wordcount.json
Manifests(e) ==
    { << [ event_id |-> e, paths |-> ps ] >> :
        ps \in Arrangements(ManifestPaths(e), MaxKeys) \ { <<>> } }

\* the event type tags a caller may pass
EventTypes(e) == IF e = s_ev THEN { "None" } ELSE { "None", "MINISTORY" }

id_main_00_01 == s_main_ \o << "0", "0", "-", "0", "1" >>

id_main_00_02 == s_main_ \o << "0", "0", "-", "0", "2" >>

id_main_01_01 == s_main_ \o << "0", "1", "-", "0", "1" >>

id_st_00_01 == s_st_ \o << "0", "0", "-", "0", "1" >>

\* the chapters a caller may ask for
Chapters == { 0, 1 }

\* rows the stage table may hold for the main story
MainStageRows ==
    { Row(id_main_00_01, << "0", "-", "1" >>, <<>>),
      Row(id_main_00_01, << "0", "-", "1" >>, << id_main_00_02 >>),
      Row(id_main_00_02, << "0", "-", "2" >>, <<>>),
      Row(id_main_00_02, << "0", "-", "2" >>, << id_main_00_01 >>),
      Row(id_st_00_01, << "S", "T", "-", "1" >>, <<>>),
      Row(id_st_00_01, << "S", "T", "-", "1" >>, << id_main_00_02 >>),
      Row(id_main_01_01, << "1", "-", "1" >>, << id_main_00_02 >>) }

MainStageTables ==
    { t \in Arrangements(MainStageRows, MaxStages) :
        \A i, j \in 1..Len(t) : t[i].stage_id = t[j].stage_id => i = j }

\* files the main story directory may hold, as scan_main_story_files lists them
MainFileNames ==
    << File(id_main_00_01 \o s_beg), File(id_main_00_01 \o s_end), File(id_main_00_02 \o s_beg),
       File(id_main_01_01 \o s_beg), File(id_st_00_01) >>

MainFileLists == SubLists(MainFileNames, MaxFiles)

\* ------------------------------------------------------------------------
\* State
\* ------------------------------------------------------------------------

VARIABLES
    event_id,            \* arguments of get_story_order_for_event
    event_type,
    stages,
    story_files,
    wordcount_data,      \* what load_wordcount_data returns
    chapter,             \* argument of get_main_story_order_for_chapter: <<>> or <<n>>
    pc,
    run,
    event_stages,        \* locals of get_story_order_for_event
    story_stage_mapping,
    dependency_graph,
    in_degree,           \* locals of topological_sort
    queue,
    result,
    ordered_stages,
    ordered_stories,     \* the value returned
    raised,              \* an exception reached the caller
    first_run,           \* the outcome of the first run
    table_file,          \* a table file on disk, as the loaders find it
    loaded,              \* what each table loader gave its caller
    events,              \* build_site: the events to generate pages for
    build_i,             \* build_site: the index of the event in the generation loop
    generated,           \* the events whose pages were generated
    exit_code            \* the exit status of the build process

vars == << event_id, event_type, stages, story_files, wordcount_data, chapter, hash_seed, pc, run,
           event_stages, story_stage_mapping, dependency_graph, in_degree, queue, result,
           ordered_stages, ordered_stories, raised, first_run, table_file, loaded,
           events, build_i, generated, exit_code >>

tables == << table_file, loaded >>

build == << events, build_i, generated, exit_code >>

inputs == << event_id, event_type, stages, story_files, wordcount_data, chapter >>

locals == << event_stages, story_stage_mapping, dependency_graph, in_degree, queue, result,
             ordered_stages >>

NoLocals ==
    /\ event_stages = <<>>
    /\ story_stage_mapping = <<>>
    /\ dependency_graph = <<>>
    /\ in_degree = <<>>
    /\ queue = <<>>
    /\ result = <<>>
    /\ ordered_stages = <<>>

\* an event without an entry in wordcount.json
InitNoManifest ==
    /\ event_id \in EventIds
    /\ event_type \in EventTypes(event_id)
    /\ stages \in StageTables(event_id, MaxStages)
    /\ story_files \in StoryFileLists(event_id)
    /\ wordcount_data = <<>>

\* an event with an entry in wordcount.json
InitManifest ==
    /\ event_id \in EventIds
    /\ event_type \in EventTypes(event_id)
    /\ stages \in StageTables(event_id, MaxStagesWithManifest)
    /\ story_files \in StoryFileLists(event_id)
    /\ wordcount_data \in Manifests(event_id)

\* no table is being loaded
NoTables ==
    /\ table_file = [ state |-> "missing", value |-> <<>> ]
    /\ loaded = <<>>

\* no build is running
NoBuild ==
    /\ events = <<>>
    /\ build_i = 0
    /\ generated = <<>>
    /\ exit_code = <<>>

Init ==
    /\ InitNoManifest \/ InitManifest
    /\ chapter = <<>>
    /\ NoTables
    /\ NoBuild
    /\ hash_seed = 0
    /\ pc = "start"
    /\ run = 1
    /\ NoLocals
    /\ ordered_stories = <<>>
    /\ raised = FALSE
    /\ first_run = <<>>

wordcount_order == get_event_story_order(event_id, wordcount_data)

Return(outcome) ==
    /\ pc' = "done"
    /\ raised' = outcome.raised
    /\ ordered_stories' = IF outcome.raised THEN <<>> ELSE outcome.stories

\* the leftover sweep of the manifest path sorting the caller's list itself
UseWordcountOrderSortingInPlace ==
    /\ pc = "start"
    /\ Len(wordcount_order) > 0
    /\ Return(get_story_order_from_wordcount(event_id, stages, story_files, wordcount_order,
                                             event_type))
    /\ story_files' = SortedNatural(story_files)
    /\ UNCHANGED << tables, build, event_id, event_type, stages, wordcount_data, chapter,
                    hash_seed, run, locals, first_run >>

\* get_story_order_for_event, lines 496-507
UseWordcountOrder ==
    /\ pc = "start"
    /\ Len(wordcount_order) > 0
    /\ Return(get_story_order_from_wordcount(event_id, stages, story_files, wordcount_order,
                                             event_type))
    /\ UNCHANGED << tables, build, inputs, hash_seed, run, locals, first_run >>

\* get_story_order_for_event, lines 509-521
MinistoryOrder ==
    /\ pc = "start"
    /\ Len(wordcount_order) = 0
    /\ event_type = "MINISTORY"
    /\ Return([ raised |-> FALSE, stories |-> get_ministory_stages(event_id, story_files) ])
    /\ UNCHANGED << tables, build, inputs, hash_seed, run, locals, first_run >>

\* get_story_order_for_event, lines 525-529
TypeAct4d0Order ==
    /\ pc = "start"
    /\ Len(wordcount_order) = 0
    /\ event_type # "MINISTORY"
    /\ event_id \in TypeAct4d0Events
    /\ Return([ raised |-> FALSE, stories |-> handle_type_act4d0_events(event_id, story_files) ])
    /\ UNCHANGED << tables, build, inputs, hash_seed, run, locals, first_run >>

\* get_story_order_for_event, lines 531-620, and topological_sort, lines 772-782
BuildGraph ==
    /\ pc = "start"
    /\ Len(wordcount_order) = 0
    /\ event_type # "MINISTORY"
    /\ event_id \notin TypeAct4d0Events
    /\ LET pool == get_event_related_stages(event_id, stages)
           graph == build_stage_dependency_graph(pool)
       IN  /\ event_stages' = pool
           /\ story_stage_mapping' =
                [ i \in 1..Len(story_files) |-> ClassifyFile(event_id, event_type, story_files[i]) ]
           /\ dependency_graph' = graph
           /\ in_degree' = InitialInDegree(graph)
           /\ queue' = InitialQueue(graph, InitialInDegree(graph))
    /\ result' = <<>>
    /\ pc' = "topo"
    /\ UNCHANGED << tables, build, inputs, hash_seed, run, ordered_stages, ordered_stories, raised, first_run >>

\* one iteration of the loop putting the popped node at the front of result
TopoStepPrepending ==
    /\ pc = "topo"
    /\ Len(queue) > 0
    /\ LET node == Head(queue)
           after == Release(GraphDeps(dependency_graph, node), in_degree, Tail(queue))
       IN  /\ result' = << node >> \o result
           /\ in_degree' = after.in_degree
           /\ queue' = after.queue
    /\ UNCHANGED << tables, build, inputs, hash_seed, pc, run, event_stages, story_stage_mapping,
                    dependency_graph, ordered_stages, ordered_stories, raised, first_run >>

\* one iteration of the while loop of topological_sort, lines 784-792
TopoStep ==
    /\ pc = "topo"
    /\ Len(queue) > 0
    /\ LET node == Head(queue)
           after == Release(GraphDeps(dependency_graph, node), in_degree, Tail(queue))
       IN  /\ result' = Append(result, node)
           /\ in_degree' = after.in_degree
           /\ queue' = after.queue
    /\ UNCHANGED << tables, build, inputs, hash_seed, pc, run, event_stages, story_stage_mapping,
                    dependency_graph, ordered_stages, ordered_stories, raised, first_run >>

\* topological_sort returns; get_story_order_for_event, lines 623-640
OrderStages ==
    /\ pc = "topo"
    /\ chapter = <<>>
    /\ Len(queue) = 0
    /\ ordered_stages' = StageOrder(dependency_graph, event_stages, Reverse(result))
    /\ pc' = "emit"
    /\ UNCHANGED << tables, build, inputs, hash_seed, run, event_stages, story_stage_mapping, dependency_graph,
                    in_degree, queue, result, ordered_stories, raised, first_run >>

\* the leftover files put before the entries of the sequenced stages
EmitStoriesSweepFirst ==
    /\ pc = "emit"
    /\ LET ordered == StageLoop(event_id, event_stages, ordered_stages, story_files,
                                story_stage_mapping)
           sweep == SweepEntries(event_id, event_stages, story_files, story_stage_mapping, ordered)
       IN  Return([ raised |-> sweep.raised, stories |-> sweep.stories \o ordered ])
    /\ UNCHANGED << tables, build, inputs, hash_seed, run, locals, first_run >>

\* get_story_order_for_event, lines 642-768
EmitStories ==
    /\ pc = "emit"
    /\ LET ordered == StageLoop(event_id, event_stages, ordered_stages, story_files,
                                story_stage_mapping)
           sweep == SweepEntries(event_id, event_stages, story_files, story_stage_mapping, ordered)
       IN  Return([ raised |-> sweep.raised, stories |-> ordered \o sweep.stories ])
    /\ UNCHANGED << tables, build, inputs, hash_seed, run, locals, first_run >>

\* the caller runs the resolver again on the same inputs, in a new process
Rerun ==
    /\ pc = "done"
    /\ run = 1
    /\ first_run' = << [ raised |-> raised, stories |-> ordered_stories ] >>
    /\ run' = 2
    /\ hash_seed' \in {0, 1}
    /\ pc' = IF chapter = <<>> THEN "start" ELSE "main"
    /\ event_stages' = <<>>
    /\ story_stage_mapping' = <<>>
    /\ dependency_graph' = <<>>
    /\ in_degree' = <<>>
    /\ queue' = <<>>
    /\ result' = <<>>
    /\ ordered_stages' = <<>>
    /\ ordered_stories' = <<>>
    /\ raised' = FALSE
    /\ UNCHANGED << tables, build, inputs >>

Next ==
    \/ UseWordcountOrder
    \/ MinistoryOrder
    \/ TypeAct4d0Order
    \/ BuildGraph
    \/ TopoStep
    \/ OrderStages
    \/ EmitStories
    \/ Rerun

Spec == Init /\ [][Next]_vars

\* a call of get_main_story_order_for_chapter
InitMain ==
    /\ chapter \in { << c >> : c \in Chapters }
    /\ stages \in MainStageTables
    /\ story_files \in MainFileLists
    /\ event_id = <<>>
    /\ event_type = "None"
    /\ wordcount_data = <<>>
    /\ NoTables
    /\ NoBuild
    /\ hash_seed = 0
    /\ pc = "main"
    /\ run = 1
    /\ NoLocals
    /\ ordered_stories = <<>>
    /\ raised = FALSE
    /\ first_run = <<>>

\* get_main_story_order_for_chapter, lines 829-858, and topological_sort,
\* lines 772-782
MainBuildGraph ==
    /\ pc = "main"
    /\ LET pool == ChapterStages(chapter[1], stages)
           graph == build_stage_dependency_graph(pool)
       IN  /\ event_stages' = pool
           /\ story_stage_mapping' =
                [ i \in 1..Len(story_files) |-> MainClassifyFile(story_files[i]) ]
           /\ dependency_graph' = graph
           /\ in_degree' = InitialInDegree(graph)
           /\ queue' = InitialQueue(graph, InitialInDegree(graph))
    /\ result' = <<>>
    /\ pc' = "topo"
    /\ UNCHANGED << tables, build, inputs, hash_seed, run, ordered_stages, ordered_stories, raised,
                    first_run >>

\* topological_sort returns; get_main_story_order_for_chapter, lines 861-892
MainEmitStories ==
    /\ pc = "topo"
    /\ chapter # <<>>
    /\ Len(queue) = 0
    /\ ordered_stages' = Reverse(result)
    /\ Return([ raised |-> FALSE,
                stories |-> MainStageLoop(event_stages, Reverse(result), story_files,
                                          story_stage_mapping) ])
    /\ UNCHANGED << tables, build, inputs, hash_seed, run, event_stages, story_stage_mapping,
                    dependency_graph, in_degree, queue, result, first_run >>

\* a call of either resolver
InitResolver == Init \/ InitMain

NextResolver ==
    \/ UseWordcountOrder
    \/ MinistoryOrder
    \/ TypeAct4d0Order
    \/ BuildGraph
    \/ TopoStep
    \/ OrderStages
    \/ EmitStories
    \/ MainBuildGraph
    \/ MainEmitStories
    \/ Rerun

ResolverSpec == InitResolver /\ [][NextResolver]_vars

\* ------------------------------------------------------------------------
\* The stage matcher and the dependency graph on their own
\* ------------------------------------------------------------------------

\* a row of the stage table with a levelId
RowWithLevel(id, level_id) ==
    StageInfo(id, << "C" >>, << "n" >>, "MAIN", <<>>, << "z" >>, << level_id >>)

id_x_1 == << "x", "_", "1" >>

\* a stage id no table holds
id_ev_9 == s_ev \o << "_", "9" >>

id_x_2 == << "x", "_", "2" >>

id_a003_01 == s_a003_ \o << "0", "1" >>

\* rows whose stage id or level id does or does not name an event
MatcherRows ==
    { Row(id_ev_1, << "E", "V", "-", "1" >>, <<>>),
      Row(id_ev_1, << "E", "V", "-", "1" >>, << id_x_1, id_ev_9 >>),
      Row(id_x_1, << "X", "-", "1" >>, <<>>),
      RowWithLevel(id_x_1, << "a", "/", "E", "v", "_", "1" >>),
      RowWithLevel(id_x_1, << "a", "/", "e", "w" >>),
      RowWithLevel(id_x_2, << "A", "c", "t", "3", "D", "0", "/", "l" >>),
      RowWithLevel(id_x_2, <<>>),
      Row(id_a003_01, << "A", "-", "1" >>, <<>>),
      Row(id_a004_01, << "A", "-", "1" >>, <<>>) }

MatcherTables ==
    { t \in Arrangements(MatcherRows, MaxStages) :
        \A i, j \in 1..Len(t) : t[i].stage_id = t[j].stage_id => i = j }

InitMatcher ==
    /\ event_id \in { s_ev, s_act3d0, s_act4d0 }
    /\ stages \in MatcherTables
    /\ event_type = "None"
    /\ story_files = <<>>
    /\ wordcount_data = <<>>
    /\ chapter = <<>>
    /\ NoTables
    /\ NoBuild
    /\ hash_seed = 0
    /\ pc = "match"
    /\ run = 1
    /\ NoLocals
    /\ ordered_stories = <<>>
    /\ raised = FALSE
    /\ first_run = <<>>

\* a call of get_event_related_stages, lines 174-202
MatchStages ==
    /\ pc = "match"
    /\ event_stages' = get_event_related_stages(event_id, stages)
    /\ pc' = "matched"
    /\ UNCHANGED << tables, build, inputs, hash_seed, run, story_stage_mapping, dependency_graph,
                    in_degree, queue, result, ordered_stages, ordered_stories, raised,
                    first_run >>

\* a call of build_stage_dependency_graph on the pool, lines 58-69
BuildDependencyGraph ==
    /\ pc = "matched"
    /\ dependency_graph' = build_stage_dependency_graph(event_stages)
    /\ pc' = "graph"
    /\ UNCHANGED << tables, build, inputs, hash_seed, run, event_stages, story_stage_mapping,
                    in_degree, queue, result, ordered_stages, ordered_stories, raised,
                    first_run >>

NextMatcher ==
    \/ MatchStages
    \/ BuildDependencyGraph

MatcherSpec == InitMatcher /\ [][NextMatcher]_vars

\* ------------------------------------------------------------------------
\* The two filename classifiers on their own
\* ------------------------------------------------------------------------

\* file names of every pattern the classifiers tell apart
ClassifierFileNames ==
    << File(id_evX_01), File(id_evX_01 \o s_beg), File(id_evX_01 \o s_end),
       File(s_evX \o s_sub \o << "1", "-", "2" >> \o s_end),
       File(id_evX_st01), File(s_evX \o s_st \o << "1" >>),
       File(s_evX \o s_hidden_st \o << "0", "1" >>),
       File(s_act3d0 \o << "_", "0", "1" >> \o s_beg), File(id_act4d0_st01) >>

InitClassifier ==
    /\ event_id \in { s_evX, s_act3d0, s_act4d0 }
    /\ event_type \in { "None", "MINISTORY" }
    /\ stages \in { <<>>, << Row(id_evX_01, << "E", "X", "-", "1" >>, <<>>) >> }
    /\ story_files \in SubLists(ClassifierFileNames, MaxFiles)
    /\ wordcount_data = <<>>
    /\ chapter = <<>>
    /\ NoTables
    /\ NoBuild
    /\ hash_seed = 0
    /\ pc = "classify"
    /\ run = 1
    /\ NoLocals
    /\ ordered_stories = <<>>
    /\ raised = FALSE
    /\ first_run = <<>>

\* the classifying loop of the graph-based path, lines 533-617
ClassifyForGraph ==
    /\ pc = "classify"
    /\ story_stage_mapping' =
         [ i \in 1..Len(story_files) |-> ClassifyFile(event_id, event_type, story_files[i]) ]
    /\ pc' = "classified"
    /\ UNCHANGED << tables, build, inputs, hash_seed, run, event_stages, dependency_graph,
                    in_degree, queue, result, ordered_stages, ordered_stories, raised,
                    first_run >>

\* the body of the manifest loop for each file as a matched file, lines 404-471
ClassifyForManifest ==
    /\ pc = "classified"
    /\ ordered_stories' =
         [ i \in 1..Len(story_files) |->
             WordcountEntry(event_id, get_event_related_stages(event_id, stages),
                            story_files[i]) ]
    /\ pc' = "compared"
    /\ UNCHANGED << tables, build, inputs, hash_seed, run, locals, raised, first_run >>

NextClassifier ==
    \/ ClassifyForGraph
    \/ ClassifyForManifest

ClassifierSpec == InitClassifier /\ [][NextClassifier]_vars

\* ------------------------------------------------------------------------
\* The story-only paths on their own
\* ------------------------------------------------------------------------

\* the directory of a story-only event: episodes numbered with and without
\* padding, and a file of a gameplay stage
EpisodeFileNames(e) ==
    << File(e \o s_st \o << "2" >>), File(e \o s_st \o << "1", "0" >>),
       File(e \o s_st \o << "0", "1" >>), File(e \o s_st \o << "9", "9" >>),
       File(e \o s_st \o << "1", "0", "0" >>), File(e \o << "_", "0", "1" >> \o s_beg) >>

InitStoryOnly ==
    /\ event_id \in { s_evX, s_act4d0 }
    /\ event_type \in IF event_id = s_evX THEN { "MINISTORY" } ELSE { "None", "MINISTORY" }
    /\ stages \in StageTables(event_id, 1)
    /\ story_files \in SubLists(SortedAlpha(EpisodeFileNames(event_id)), MaxFiles)
    /\ wordcount_data = <<>>
    /\ chapter = <<>>
    /\ NoTables
    /\ NoBuild
    /\ hash_seed = 0
    /\ pc = "start"
    /\ run = 1
    /\ NoLocals
    /\ ordered_stories = <<>>
    /\ raised = FALSE
    /\ first_run = <<>>

NextStoryOnly ==
    \/ MinistoryOrder
    \/ TypeAct4d0Order

StoryOnlySpec == InitStoryOnly /\ [][NextStoryOnly]_vars

\* ------------------------------------------------------------------------
\* The graph-based path on event act9d0
\* ------------------------------------------------------------------------

s_act9d == << "a", "c", "t", "9", "d" >>

id_act9d0_06 == s_act9d0 \o << "_", "0", "6" >>

id_act9d0_07 == s_act9d0 \o << "_", "0", "7" >>

id_act9d0_08 == s_act9d0 \o << "_", "0", "8" >>

\* rows the stage table may hold for act9d0: DM-7 and DM-8 free, in sequence
\* or unlocking each other
PlaceholderRows ==
    { Row(id_act9d0_06, << "D", "M", "-", "6" >>, <<>>),
      Row(id_act9d0_07, << "D", "M", "-", "7" >>, <<>>),
      Row(id_act9d0_07, << "D", "M", "-", "7" >>, << id_act9d0_06 >>),
      Row(id_act9d0_07, << "D", "M", "-", "7" >>, << id_act9d0_08 >>),
      Row(id_act9d0_08, << "D", "M", "-", "8" >>, <<>>),
      Row(id_act9d0_08, << "D", "M", "-", "8" >>, << id_act9d0_07 >>) }

PlaceholderTables ==
    { t \in Arrangements(PlaceholderRows, MaxStages) :
        \A i, j \in 1..Len(t) : t[i].stage_id = t[j].stage_id => i = j }

PlaceholderFileNames ==
    << File(id_act9d0_06 \o s_beg), File(id_act9d0_07), File(id_act9d0_07 \o s_beg),
       File(id_act9d0_08 \o s_end) >>

\* the entry of act9d0 in wordcount.json: none, or one naming a file by its
\* base name, a file by its name without the event id, and a file that the
\* directory does not hold
PlaceholderManifests ==
    { <<>> } \cup
    { << [ event_id |-> s_act9d0, paths |-> ps ] >> :
        ps \in Arrangements({ id_act9d0_06 \o s_beg, << "0", "7" >>,
                              s_act9d0 \o << "_", "0", "9" >> \o s_end }, MaxKeys) \ { <<>> } }

\* the event act9d0, and an event whose id is a prefix of its stage ids
InitPlaceholder ==
    /\ event_id \in { s_act9d0, s_act9d }
    /\ event_type = "None"
    /\ stages \in PlaceholderTables
    /\ story_files \in SubLists(SortedAlpha(PlaceholderFileNames), MaxFiles)
    /\ wordcount_data \in IF event_id = s_act9d0 THEN PlaceholderManifests ELSE { <<>> }
    /\ chapter = <<>>
    /\ NoTables
    /\ NoBuild
    /\ hash_seed = 0
    /\ pc = "start"
    /\ run = 1
    /\ NoLocals
    /\ ordered_stories = <<>>
    /\ raised = FALSE
    /\ first_run = <<>>

NextPlaceholder ==
    \/ UseWordcountOrder
    \/ BuildGraph
    \/ TopoStep
    \/ OrderStages
    \/ EmitStories

PlaceholderSpec == InitPlaceholder /\ [][NextPlaceholder]_vars

\* ------------------------------------------------------------------------
\* An event with sub-stage files
\* ------------------------------------------------------------------------

id_evX_s02 == s_evX \o << "_", "s", "0", "2" >>

id_evX_sub_1_2 == s_evX \o s_sub \o << "1", "-", "2" >>

id_evX_sub_3_2 == s_evX \o s_sub \o << "3", "-", "2" >>

id_evX_sub_1_10 == s_evX \o s_sub \o << "1", "-", "1", "0" >>

SubStageRows ==
    { Row(id_evX_s02, << "E", "X", "-", "S", "2" >>, <<>>),
      Row(id_evX_s02, << "E", "X", "-", "S", "2" >>, << id_evX_01 >>),
      Row(id_evX_01, << "E", "X", "-", "1" >>, <<>>) }

SubStageTables ==
    { t \in Arrangements(SubStageRows, MaxStages) :
        \A i, j \in 1..Len(t) : t[i].stage_id = t[j].stage_id => i = j }

SubStageFileNames ==
    << File(id_evX_01 \o s_end), File(id_evX_sub_1_2 \o s_end), File(id_evX_sub_3_2 \o s_end),
       File(id_evX_sub_1_10 \o s_end), File(id_evX_sub_1_2 \o s_beg) >>

\* the event's entry of wordcount.json: none, or one naming some of the files
SubStageManifests ==
    { <<>> } \cup
    { << [ event_id |-> s_evX, paths |-> ps ] >> :
        ps \in Arrangements({ id_evX_01 \o s_end, id_evX_sub_1_2 \o s_end }, MaxKeys) \ { <<>> } }

InitSubStage ==
    /\ event_id = s_evX
    /\ event_type = "None"
    /\ stages \in SubStageTables
    /\ story_files \in SubLists(SortedAlpha(SubStageFileNames), MaxFiles)
    /\ wordcount_data \in SubStageManifests
    /\ chapter = <<>>
    /\ NoTables
    /\ NoBuild
    /\ hash_seed = 0
    /\ pc = "start"
    /\ run = 1
    /\ NoLocals
    /\ ordered_stories = <<>>
    /\ raised = FALSE
    /\ first_run = <<>>

NextSubStage ==
    \/ UseWordcountOrder
    \/ BuildGraph
    \/ TopoStep
    \/ OrderStages
    \/ EmitStories

SubStageSpec == InitSubStage /\ [][NextSubStage]_vars

\* ------------------------------------------------------------------------
\* An event with hidden stories
\* ------------------------------------------------------------------------

id_story_0 == s_story_ \o << "0" >>

\* the stage table: a stage of the event, and a stage story_0 that is in the
\* pool by its level id
HiddenRows ==
    { Row(id_evX_01, << "E", "X", "-", "1" >>, <<>>),
      RowWithLevel(id_story_0, << "a", "/", "e", "v", "x", "/", "l" >>),
      Row(id_story_0, << "H", "-", "1" >>, <<>>) }

HiddenTables ==
    { t \in Arrangements(HiddenRows, MaxStages) :
        \A i, j \in 1..Len(t) : t[i].stage_id = t[j].stage_id => i = j }

HiddenFileNames ==
    << File(id_evX_01 \o s_beg),
       File(s_evX \o s_hidden_st \o << "0", "0" >>), File(s_evX \o s_hidden_st \o << "0", "1" >>),
       File(s_evX \o s_hidden_st \o << "2" >>), File(s_evX \o s_hidden_st \o << "1", "0" >>) >>

\* the event's entry of wordcount.json: none, or one naming the battle file
HiddenManifests ==
    { <<>>, << [ event_id |-> s_evX, paths |-> << id_evX_01 \o s_beg >> ] >> }

InitHidden ==
    /\ event_id = s_evX
    /\ event_type \in { "None", "MINISTORY" }
    /\ stages \in HiddenTables
    /\ story_files \in SubLists(SortedAlpha(HiddenFileNames), MaxFiles)
    /\ wordcount_data \in HiddenManifests
    /\ chapter = <<>>
    /\ NoTables
    /\ NoBuild
    /\ hash_seed = 0
    /\ pc = "start"
    /\ run = 1
    /\ NoLocals
    /\ ordered_stories = <<>>
    /\ raised = FALSE
    /\ first_run = <<>>

NextHidden ==
    \/ UseWordcountOrder
    \/ MinistoryOrder
    \/ BuildGraph
    \/ TopoStep
    \/ OrderStages
    \/ EmitStories

HiddenSpec == InitHidden /\ [][NextHidden]_vars

\* ------------------------------------------------------------------------
\* The resolver called again on the same records and names in another order
\* ------------------------------------------------------------------------

\* the lists that hold the elements of xs in some order
Reorderings(xs) ==
    { [ i \in 1..Len(xs) |-> xs[p[i]] ] :
        p \in { q \in [ 1..Len(xs) -> 1..Len(xs) ] :
                  \A i, j \in 1..Len(xs) : q[i] = q[j] => i = j } }

\* the caller runs get_story_order_for_event again: the stage table holds the
\* same records inserted in another order, the file list the same names in
\* another order
RerunReordered ==
    /\ pc = "done"
    /\ run = 1
    /\ chapter = <<>>
    /\ first_run' = << [ raised |-> raised, stories |-> ordered_stories ] >>
    /\ run' = 2
    /\ stages' \in Reorderings(stages)
    /\ story_files' \in Reorderings(story_files)
    /\ pc' = "start"
    /\ event_stages' = <<>>
    /\ story_stage_mapping' = <<>>
    /\ dependency_graph' = <<>>
    /\ in_degree' = <<>>
    /\ queue' = <<>>
    /\ result' = <<>>
    /\ ordered_stages' = <<>>
    /\ ordered_stories' = <<>>
    /\ raised' = FALSE
    /\ UNCHANGED << tables, build, event_id, event_type, wordcount_data, chapter, hash_seed >>

NextReordered ==
    \/ UseWordcountOrder
    \/ MinistoryOrder
    \/ TypeAct4d0Order
    \/ BuildGraph
    \/ TopoStep
    \/ OrderStages
    \/ EmitStories
    \/ RerunReordered

ReorderedSpec == Init /\ [][NextReordered]_vars

\* ------------------------------------------------------------------------
\* topological_sort on its own
\* ------------------------------------------------------------------------

\* the longest list of dependencies of a node
MaxDeps == 2

\* the keys of the graphs, and a name that is no key of any of them
TopoNodes == << << "a" >>, << "b" >>, << "c" >> >>

TopoUnknown == << "u" >>

\* the lists of dependencies: self-edges, duplicate edges and unknown names
\* included
DepLists == UNION { [ 1..n -> Range(TopoNodes) \cup { TopoUnknown } ] : n \in 0..MaxDeps }

\* the graphs passed to topological_sort
TopoGraphs ==
    UNION { [ 1..Len(ns) -> DepLists ] \X { ns } : ns \in SubLists(TopoNodes, MaxStages) }

InitTopo ==
    /\ \E g \in TopoGraphs :
          dependency_graph = [ i \in 1..Len(g[2]) |-> [ node |-> g[2][i], deps |-> g[1][i] ] ]
    /\ event_id = <<>>
    /\ event_type = "None"
    /\ stages = <<>>
    /\ story_files = <<>>
    /\ wordcount_data = <<>>
    /\ chapter = <<>>
    /\ NoTables
    /\ NoBuild
    /\ hash_seed = 0
    /\ pc = "sort"
    /\ run = 1
    /\ event_stages = <<>>
    /\ story_stage_mapping = <<>>
    /\ in_degree = <<>>
    /\ queue = <<>>
    /\ result = <<>>
    /\ ordered_stages = <<>>
    /\ ordered_stories = <<>>
    /\ raised = FALSE
    /\ first_run = <<>>

\* topological_sort, lines 772-782
TopoStart ==
    /\ pc = "sort"
    /\ in_degree' = InitialInDegree(dependency_graph)
    /\ queue' = InitialQueue(dependency_graph, InitialInDegree(dependency_graph))
    /\ result' = <<>>
    /\ pc' = "topo"
    /\ UNCHANGED << tables, build, inputs, hash_seed, run, event_stages, story_stage_mapping,
                    dependency_graph, ordered_stages, ordered_stories, raised, first_run >>

\* topological_sort, line 794: the queue is empty and result is returned
TopoReturn ==
    /\ pc = "topo"
    /\ Len(queue) = 0
    /\ pc' = "sorted"
    /\ UNCHANGED << tables, build, inputs, hash_seed, run, locals, ordered_stories, raised,
                    first_run >>

NextTopo ==
    \/ TopoStart
    \/ TopoStep
    \/ TopoReturn

TopoSpec == InitTopo /\ [][NextTopo]_vars

\* ------------------------------------------------------------------------
\* Table loaders: load_json, load_stage_table, load_zone_table,
\* load_activity_table, load_wordcount_data
\* ------------------------------------------------------------------------

\* what json.load gives: None, a number, a str, a list of values, or a dict as
\* the list of its (key, value) pairs
JNull == [ kind |-> "null", n |-> 0, s |-> <<>>, entries |-> <<>> ]

JNum(n) == [ kind |-> "number", n |-> n, s |-> <<>>, entries |-> <<>> ]

JStr(s) == [ kind |-> "string", n |-> 0, s |-> s, entries |-> <<>> ]

JList(xs) == [ kind |-> "list", n |-> 0, s |-> <<>>, entries |-> xs ]

JDict(kvs) == [ kind |-> "dict", n |-> 0, s |-> <<>>, entries |-> kvs ]

KV(k, v) == [ key |-> k, value |-> v ]

\* bool(v)
Truthy(v) ==
    CASE v.kind = "null" -> FALSE
      [] v.kind = "number" -> v.n # 0
      [] v.kind = "string" -> Len(v.s) > 0
      [] OTHER -> Len(v.entries) > 0

\* k in d, for a dict d
HasKey(d, k) == \E i \in 1..Len(d.entries) : d.entries[i].key = k

\* d.get(k, default), for a dict d
DictGet(d, k, default) ==
    IF HasKey(d, k)
    THEN d.entries[CHOOSE i \in 1..Len(d.entries) : d.entries[i].key = k].value
    ELSE default

\* a call that returned v, and a call that raised
Returned(v) == [ raised |-> FALSE, value |-> v ]

Raised == [ raised |-> TRUE, value |-> JNull ]

k_stages == << "s", "t", "a", "g", "e", "s" >>

k_zones == << "z", "o", "n", "e", "s" >>

k_basicInfo == << "b", "a", "s", "i", "c", "I", "n", "f", "o" >>

k_type == << "t", "y", "p", "e" >>

k_unlockCondition ==
    << "u", "n", "l", "o", "c", "k", "C", "o", "n", "d", "i", "t", "i", "o", "n" >>

k_stageId == << "s", "t", "a", "g", "e", "I", "d" >>

k_zoneIndex == << "z", "o", "n", "e", "I", "n", "d", "e", "x" >>

k_canPreview == << "c", "a", "n", "P", "r", "e", "v", "i", "e", "w" >>

s_MAINLINE == << "M", "A", "I", "N", "L", "I", "N", "E" >>

\* load_json: None for a missing file and for text that is not JSON; the
\* UnicodeDecodeError of bytes that are not UTF-8 is not caught
load_json(file) ==
    CASE file.state = "valid" -> Returned(file.value)
      [] file.state = "not_utf8" -> Raised
      [] OTHER -> Returned(JNull)

\* 'for condition in stage_data.get("unlockCondition", [])' with condition.get:
\* raises unless the value is a list of dicts or an empty str or dict
ConditionsRaise(stage_data) ==
    LET uc == DictGet(stage_data, k_unlockCondition, JList(<<>>))
    IN  CASE uc.kind \in {"null", "number"} -> TRUE
          [] uc.kind = "string" -> Len(uc.s) > 0
          [] uc.kind = "dict" -> Len(uc.entries) > 0
          [] OTHER -> \E i \in 1..Len(uc.entries) : uc.entries[i].kind # "dict"

\* the stage ids of the unlock conditions of a stage of the table
ConditionIds(stage_data) ==
    LET uc == DictGet(stage_data, k_unlockCondition, JList(<<>>))
    IN  IF uc.kind # "list" THEN <<>>
        ELSE [ i \in 1..Len(uc.entries) |-> DictGet(uc.entries[i], k_stageId, JStr(<<>>)).s ]

load_stage_table(file) ==
    LET read == load_json(file)
        data == read.value
        stages_data == DictGet(data, k_stages, JDict(<<>>))
    IN  IF read.raised THEN Raised
        ELSE IF ~Truthy(data) THEN Returned(JDict(<<>>))
        ELSE IF data.kind # "dict" THEN Raised
        ELSE IF stages_data.kind # "dict" THEN Raised
        ELSE IF \E i \in 1..Len(stages_data.entries) :
                   \/ stages_data.entries[i].value.kind # "dict"
                   \/ ConditionsRaise(stages_data.entries[i].value)
        THEN Raised
        ELSE Returned(JDict([ i \in 1..Len(stages_data.entries) |->
                 KV(stages_data.entries[i].key,
                    StageInfo(stages_data.entries[i].key, <<>>, <<>>, "",
                              ConditionIds(stages_data.entries[i].value), <<>>, <<>>)) ]))

\* a zone of the table that load_zone_table keeps
IsMainline(kv) ==
    /\ StartsWith(kv.key, s_main_)
    /\ DictGet(kv.value, k_type, JNull) = JStr(s_MAINLINE)

\* f"{chapter_number:02d}" raises unless zoneIndex is an int
ZoneIndexRaises(zone_data) == DictGet(zone_data, k_zoneIndex, JNum(0)).kind # "number"

load_zone_table(file, has_stories) ==
    LET read == load_json(file)
        data == read.value
        zones_data == DictGet(data, k_zones, JDict(<<>>))
        kept == SelectSeq(zones_data.entries, IsMainline)
    IN  IF read.raised THEN Raised
        ELSE IF ~Truthy(data) THEN Returned(JDict(<<>>))
        ELSE IF data.kind # "dict" THEN Raised
        ELSE IF zones_data.kind # "dict" THEN Raised
        ELSE IF \E i \in 1..Len(zones_data.entries) :
                   /\ StartsWith(zones_data.entries[i].key, s_main_)
                   /\ \/ zones_data.entries[i].value.kind # "dict"
                      \/ IsMainline(zones_data.entries[i])
                         /\ ZoneIndexRaises(zones_data.entries[i].value)
        THEN Raised
        ELSE Returned(JDict([ i \in 1..Len(kept) |->
                 KV(kept[i].key,
                    [ zone_id |-> kept[i].key,
                      zone_index |-> DictGet(kept[i].value, k_zoneIndex, JNum(0)).n,
                      zone_type |-> s_MAINLINE,
                      can_preview |-> \/ Truthy(DictGet(kept[i].value, k_canPreview, JNull))
                                      \/ has_stories ]) ]))

\* 'basicInfo' in data raises for a number; data['basicInfo'] for a list or str
load_activity_table(file) ==
    LET read == load_json(file)
        data == read.value
        found == CASE data.kind = "dict" -> HasKey(data, k_basicInfo)
                   [] data.kind = "list" -> JStr(k_basicInfo) \in Range(data.entries)
                   [] data.kind = "string" -> Contains(data.s, k_basicInfo)
                   [] OTHER -> FALSE
    IN  IF read.raised THEN Raised
        ELSE IF ~Truthy(data) THEN Returned(JDict(<<>>))
        ELSE IF data.kind = "number" THEN Raised
        ELSE IF ~found THEN Returned(JDict(<<>>))
        ELSE IF data.kind # "dict" THEN Raised
        ELSE Returned(DictGet(data, k_basicInfo, JNull))

\* {} for a missing file and for any exception of open or json.load, else the
\* parsed value as it is
load_wordcount_data(file) ==
    IF file.state = "valid" THEN Returned(file.value) ELSE Returned(JDict(<<>>))

\* rows a table of a file may hold
TableEntries == { JNum(1), JDict(<<>>), JDict(<< KV(k_type, JStr(s_MAINLINE)) >>) }

TableKeys == { id_evX_01, s_main_ \o <<"0">> }

\* values the file may hold under a top-level key
TableValues ==
    { JNull, JNum(1), JList(<< JNum(1) >>), JDict(<<>>) }
    \cup { JDict(<< KV(k, e) >>) : k \in TableKeys, e \in TableEntries }

TopKeys == { k_stages, k_zones, k_basicInfo, s_evX }

\* JSON texts a table file may hold
FileValues ==
    { JNull, JNum(0), JNum(1), JStr(<<>>), JStr(k_basicInfo), JList(<<>>), JList(<< JNum(1) >>),
      JList(<< JStr(k_basicInfo) >>), JDict(<<>>) }
    \cup { JDict(<< KV(k, v) >>) : k \in TopKeys, v \in TableValues }

\* a table file on disk: missing, not JSON, not UTF-8, or JSON
TableFiles ==
    { [ state |-> s, value |-> JNull ] : s \in { "missing", "invalid", "not_utf8" } }
    \cup { [ state |-> "valid", value |-> v ] : v \in FileValues }

\* the resolver is not running
resolver == << inputs, hash_seed, pc, run, locals, ordered_stories, raised, first_run >>

NoResolver ==
    /\ event_id = <<>>
    /\ event_type = "None"
    /\ stages = <<>>
    /\ story_files = <<>>
    /\ wordcount_data = <<>>
    /\ chapter = <<>>
    /\ hash_seed = 0
    /\ run = 1
    /\ NoLocals
    /\ ordered_stories = <<>>
    /\ raised = FALSE
    /\ first_run = <<>>

InitLoad ==
    /\ table_file \in TableFiles
    /\ loaded = [ stage |-> <<>>, zone |-> <<>>, activity |-> <<>>, wordcount |-> <<>> ]
    /\ pc = "tables"
    /\ NoResolver
    /\ NoBuild

LoadStageTable ==
    /\ pc = "tables"
    /\ loaded.stage = <<>>
    /\ loaded' = [ loaded EXCEPT !.stage = << load_stage_table(table_file) >> ]
    /\ UNCHANGED << table_file, build, resolver >>

\* has_stories: whether the story directory holds files of the chapter
LoadZoneTable ==
    /\ pc = "tables"
    /\ loaded.zone = <<>>
    /\ \E has_stories \in BOOLEAN :
          loaded' = [ loaded EXCEPT !.zone = << load_zone_table(table_file, has_stories) >> ]
    /\ UNCHANGED << table_file, build, resolver >>

LoadActivityTable ==
    /\ pc = "tables"
    /\ loaded.activity = <<>>
    /\ loaded' = [ loaded EXCEPT !.activity = << load_activity_table(table_file) >> ]
    /\ UNCHANGED << table_file, build, resolver >>

LoadWordcountData ==
    /\ pc = "tables"
    /\ loaded.wordcount = <<>>
    /\ loaded' = [ loaded EXCEPT !.wordcount = << load_wordcount_data(table_file) >> ]
    /\ UNCHANGED << table_file, build, resolver >>

NextLoad ==
    \/ LoadStageTable
    \/ LoadZoneTable
    \/ LoadActivityTable
    \/ LoadWordcountData

LoadSpec == InitLoad /\ [][NextLoad]_vars

\* ------------------------------------------------------------------------
\* The build driver: build_site, main, EventGenerator.generate,
\* get_ordered_stories_for_event
\* ------------------------------------------------------------------------

MaxEvents == 2

\* the file names of the value returned, in order
OutputFiles == [ i \in 1..Len(ordered_stories) |-> ordered_stories[i].file ]

\* an event of the build and the story files get_story_files finds for it
EventDescriptors(e) == { [ event_id |-> e, story_files |-> fs ] : fs \in StoryFileLists(e) }

\* the events get_events_with_stories returns: one per activity id
BuildEvents ==
    { es \in Arrangements(UNION { EventDescriptors(e) : e \in EventIds }, MaxEvents) :
        \A i, j \in 1..Len(es) : es[i].event_id = es[j].event_id => i = j }

\* stage_table.json as load_stage_table returns it: no row, or rows of every event
BuildStageTables ==
    { <<>>,
      << Row(id_ev_1, << "E", "V", "-", "1" >>, <<>>),
         Row(id_ev_2, << "E", "V", "-", "2" >>, << id_ev_1 >>),
         Row(id_evX_01, << "E", "X", "-", "1" >>, <<>>),
         Row(id_a004_01, << "A", "-", "1" >>, <<>>) >> }

InitBuild ==
    /\ events \in BuildEvents
    /\ stages \in BuildStageTables
    /\ wordcount_data \in { <<>> } \cup Manifests(s_ev)
    /\ event_id = <<>>
    /\ event_type = "None"
    /\ story_files = <<>>
    /\ chapter = <<>>
    /\ build_i = 1
    /\ generated = <<>>
    /\ exit_code = <<>>
    /\ pc = "build"
    /\ NoTables
    /\ hash_seed = 0
    /\ run = 1
    /\ NoLocals
    /\ ordered_stories = <<>>
    /\ raised = FALSE
    /\ first_run = <<>>

\* build_site, lines 155-159; EventGenerator.generate, lines 25-29;
\* get_ordered_stories_for_event, lines 116-130: the resolver is called
\* without an event type
ResolveEvent ==
    /\ pc = "build"
    /\ build_i <= Len(events)
    /\ Len(events[build_i].story_files) > 0
    /\ Len(stages) > 0
    /\ event_id' = events[build_i].event_id
    /\ story_files' = events[build_i].story_files
    /\ event_type' = "None"
    /\ pc' = "start"
    /\ UNCHANGED << tables, build, stages, wordcount_data, chapter, hash_seed, run, locals,
                    ordered_stories, raised, first_run >>

\* get_ordered_stories_for_event, lines 124-127: without story files or
\* without stages, the files in alphabetical order
FallbackOrder ==
    /\ pc = "build"
    /\ build_i <= Len(events)
    /\ Len(events[build_i].story_files) = 0 \/ Len(stages) = 0
    /\ event_id' = events[build_i].event_id
    /\ story_files' = events[build_i].story_files
    /\ event_type' = "None"
    /\ Return([ raised |-> FALSE,
                stories |-> LET sorted == SortedAlpha(events[build_i].story_files)
                            IN  [ i \in 1..Len(sorted) |-> Entry(sorted[i], <<>>, FALSE) ] ])
    /\ UNCHANGED << tables, build, stages, wordcount_data, chapter, hash_seed, run, locals,
                    first_run >>

\* the phase labels of get_stage_display_info
s_pre_battle == << "U+6226", "U+95D8", "U+524D" >>

s_post_battle == << "U+6226", "U+95D8", "U+5F8C" >>

s_interlude == << "U+9593", "U+7AE0" >>

get_stage_display_info(stage_info, story_type) ==
    [ code |-> IF StartsWith(stage_info.stage_id, s_story_)
               THEN stage_info.stage_id ELSE stage_info.code,
      name |-> stage_info.name,
      danger_level |-> stage_info.danger_level,
      stage_type |-> stage_info.stage_type,
      story_phase |-> CASE story_type = "beg" -> s_pre_battle
                        [] story_type = "end" -> s_post_battle
                        [] story_type = "story" -> s_interlude
                        [] OTHER -> <<>> ]

\* get_ordered_stories_for_event, lines 134-140
StoryTypeOf(entry) ==
    IF entry.battle
    THEN IF Contains(entry.file, s_beg) THEN "beg"
         ELSE IF Contains(entry.file, s_end) THEN "end"
         ELSE "story"
    ELSE "story"

\* what get_ordered_stories_for_event returns for the event being generated:
\* the (file_name, display_info) pairs
DisplayEntries ==
    IF Len(story_files) = 0 \/ Len(stages) = 0
    THEN [ i \in 1..Len(ordered_stories) |->
             [ file |-> ordered_stories[i].file,
               info |-> [ code |-> <<>>, name |-> ordered_stories[i].file, story_phase |-> <<>>,
                          danger_level |-> <<>>, stage_type |-> <<>> ] ] ]
    ELSE [ i \in 1..Len(ordered_stories) |->
             [ file |-> ordered_stories[i].file,
               info |-> get_stage_display_info(ordered_stories[i].stage,
                                               StoryTypeOf(ordered_stories[i])) ] ]

\* EventGenerator.generate, lines 40-203, and build_site, lines 161-163:
\* the event's pages are written and the loop goes on to the next event
GenerateEvent ==
    /\ pc = "done"
    /\ build_i >= 1
    /\ ~raised
    /\ generated' = Append(generated, [ event_id |-> event_id, files |-> OutputFiles,
                                        stories |-> DisplayEntries ])
    /\ build_i' = build_i + 1
    /\ pc' = "build"
    /\ event_stages' = <<>>
    /\ story_stage_mapping' = <<>>
    /\ dependency_graph' = <<>>
    /\ in_degree' = <<>>
    /\ queue' = <<>>
    /\ result' = <<>>
    /\ ordered_stages' = <<>>
    /\ ordered_stories' = <<>>
    /\ UNCHANGED << tables, inputs, hash_seed, run, raised, first_run, events, exit_code >>

\* the exception leaves EventGenerator.generate and the loop of build_site,
\* which catch nothing; main, lines 301-303
BuildFails ==
    /\ pc = "done"
    /\ build_i >= 1
    /\ raised
    /\ exit_code' = << 1 >>
    /\ pc' = "exit"
    /\ UNCHANGED << tables, inputs, hash_seed, run, locals, ordered_stories, raised, first_run,
                    events, build_i, generated >>

\* build_site, lines 200-227: the loop is over; links_ok is the outcome of
\* the link check
BuildComplete ==
    /\ pc = "build"
    /\ build_i > Len(events)
    /\ \E links_ok \in BOOLEAN : exit_code' = << IF links_ok THEN 0 ELSE 1 >>
    /\ pc' = "exit"
    /\ UNCHANGED << tables, inputs, hash_seed, run, locals, ordered_stories, raised, first_run,
                    events, build_i, generated >>

NextBuild ==
    \/ ResolveEvent
    \/ FallbackOrder
    \/ UseWordcountOrder
    \/ TypeAct4d0Order
    \/ BuildGraph
    \/ TopoStep
    \/ OrderStages
    \/ EmitStories
    \/ GenerateEvent
    \/ BuildFails
    \/ BuildComplete

BuildSpec == InitBuild /\ [][NextBuild]_vars

\* ------------------------------------------------------------------------
\* The entry point get_ordered_stories_for_event on one event
\* ------------------------------------------------------------------------

\* the type of the event's activity in activity_table.json
ActivityTypes == { "MINISTORY", "SIDESTORY" }

\* one event of the build with the type of its activity
EntryEvents ==
    UNION { { << [ event_id |-> e, story_files |-> fs, type |-> ty ] >> :
                fs \in StoryFileLists(e), ty \in ActivityTypes } : e \in { s_evX, s_act4d0 } }

\* a call of get_ordered_stories_for_event for an event without a manifest entry
InitEntry ==
    /\ events \in EntryEvents
    /\ stages \in BuildStageTables
    /\ wordcount_data = <<>>
    /\ event_id = <<>>
    /\ event_type = "None"
    /\ story_files = <<>>
    /\ chapter = <<>>
    /\ build_i = 1
    /\ generated = <<>>
    /\ exit_code = <<>>
    /\ pc = "build"
    /\ NoTables
    /\ hash_seed = 0
    /\ run = 1
    /\ NoLocals
    /\ ordered_stories = <<>>
    /\ raised = FALSE
    /\ first_run = <<>>

NextEntry ==
    \/ ResolveEvent
    \/ FallbackOrder
    \/ TypeAct4d0Order
    \/ BuildGraph
    \/ TopoStep
    \/ OrderStages
    \/ EmitStories

EntrySpec == InitEntry /\ [][NextEntry]_vars

\* ------------------------------------------------------------------------
\* Properties of get_story_order_for_event
\* ------------------------------------------------------------------------

\* what the call gave its caller
outcome == [ raised |-> raised, stories |-> ordered_stories ]

GraphPath ==
    /\ Len(wordcount_order) = 0
    /\ event_type # "MINISTORY"
    /\ event_id \notin TypeAct4d0Events

InOutput(f) == \E i \in 1..Len(ordered_stories) : ordered_stories[i].file = f

Pos(f) == CHOOSE i \in 1..Len(ordered_stories) : ordered_stories[i].file = f

Occurrences(f) == Cardinality({ i \in 1..Len(ordered_stories) : ordered_stories[i].file = f })

\* a file the story-only event rules leave out: no '_st' in the name of a file
\* of a MINISTORY event or of act4d0/act6d5/act7d5
ExcludedByEventType(f) ==
    /\ event_type = "MINISTORY" \/ event_id \in TypeAct4d0Events
    /\ ~Contains(BaseName(f), s_st)

\* C2: every filename passed to get_story_order_for_event is the file of exactly
\* one entry of the output, on the manifest path and the graph-based path alike,
\* but for the files the story-only event rules exclude.
Completeness ==
    pc = "done" =>
        \A i \in 1..Len(story_files) :
            ExcludedByEventType(story_files[i]) \/ Occurrences(story_files[i]) = 1

\* the index of the first manifest key matched to file f, 0 when there is none
FirstKey(f) ==
    LET K == { k \in 1..Len(wordcount_order) :
                 MatchedFile(event_id, story_files, wordcount_order[k]) = << f >> }
    IN  IF K = {} THEN 0 ELSE SetMin(K)

\* C3: when the manifest has an entry for the event, the output's files that
\* were matched to a manifest key are in the order of their (first) keys in the
\* manifest, whatever the dependency graph or the filenames say.
ManifestPriority ==
    (pc = "done" /\ Len(wordcount_order) > 0) =>
        \A i, j \in 1..Len(ordered_stories) :
            (i < j /\ FirstKey(OutputFiles[i]) > 0 /\ FirstKey(OutputFiles[j]) > 0)
                => FirstKey(OutputFiles[i]) < FirstKey(OutputFiles[j])

\* the manifest names ev_2's file before ev_1's, while ev_2 depends on ev_1 and
\* the file of ev_1 sorts first
ManifestPriorityWitness ==
    /\ pc = "done"
    /\ event_id = s_ev
    /\ wordcount_order = << id_ev_2 \o s_beg, <<"1">> \o s_beg >>
    /\ \E i \in 1..Len(stages) :
          stages[i].stage_id = id_ev_2 /\ stages[i].unlock_conditions = << id_ev_1 >>
    /\ \E i \in 1..Len(stages) : stages[i].stage_id = id_ev_1
    /\ Len(ordered_stories) = 3
    /\ OutputFiles[1] = File(id_ev_2 \o s_beg)
    /\ OutputFiles[2] = File(id_ev_1 \o s_beg)

\* the stage key and phase the resolver's classification gives file f
PhaseOf(f) == ClassifyFile(event_id, event_type, f)

\* files a (interlude), b (_beg), c (_end) of one stage
Triple(a, b, c) ==
    /\ PhaseOf(a).story_type = "story"
    /\ PhaseOf(b).story_type = "beg"
    /\ PhaseOf(c).story_type = "end"
    /\ PhaseOf(a).stage_id = PhaseOf(b).stage_id
    /\ PhaseOf(b).stage_id = PhaseOf(c).stage_id

InOrder(a, b, c) ==
    (InOutput(a) /\ InOutput(b) /\ InOutput(c)) => (Pos(a) < Pos(b) /\ Pos(b) < Pos(c))

\* C4 as stated: in the output of get_story_order_for_event, the interlude, _beg
\* and _end files of one stage appear in the order interlude, _beg, _end.
PhaseTriOrder ==
    pc = "done" =>
        \A a, b, c \in Range(story_files) : Triple(a, b, c) => InOrder(a, b, c)

\* the stage has exactly one file of the phase
OneOfPhase(stage_id, type) ==
    Cardinality({ f \in Range(story_files) :
                    PhaseOf(f) = [ stage_id |-> stage_id, story_type |-> type ] }) = 1

\* C4 as amended: on the graph-based path, for a stage of the pool that the stage
\* order sequences and that has one _beg file and one _end file, every interlude
\* file of the stage comes before the _beg file, which comes before the _end file.
PhaseTriOrderOfSequencedStage ==
    (pc = "done" /\ GraphPath) =>
        \A a, b, c \in Range(story_files) :
            ( /\ Triple(a, b, c)
              /\ PhaseOf(a).stage_id \in Range(ordered_stages)
              /\ PhaseOf(a).stage_id \in Range(StageIds(event_stages))
              /\ OneOfPhase(PhaseOf(a).stage_id, "beg")
              /\ OneOfPhase(PhaseOf(a).stage_id, "end") )
            => (InOutput(a) /\ InOutput(b) /\ InOutput(c) => InOrder(a, b, c))

\* the three files of stage evX_01 were sequenced by the stage loop
PhaseTriOrderWitness ==
    /\ pc = "done"
    /\ GraphPath
    /\ ordered_stages = << id_evX_01 >>
    /\ OutputFiles = << File(id_evX_01), File(id_evX_01 \o s_beg), File(id_evX_01 \o s_end) >>

\* no stage of the pool has a dependency in the pool
NoPoolDependency == \A i \in 1..Len(dependency_graph) : dependency_graph[i].deps = <<>>

\* the text before the last '_' of a stage id and the number after it
IdPrefix(id) == SubSeq(id, 1, Len(id) - Len(SplitLast(id, "_")))

IdNumber(id) == ParseInt(SplitLast(id, "_"))

\* C5: when no stage of the event's pool has an in-pool dependency, the
\* graph-based path orders the whole pool by the numbers in the stage ids, not
\* by their text: the pool ev_2, ev_10, ev_1 is sequenced, and its files are
\* emitted, as ev_1, ev_2, ev_10, whatever the stage table's insertion order.
NaturalSortFallback ==
    (pc \in {"emit", "done"} /\ GraphPath /\ NoPoolDependency) =>
        /\ Len(ordered_stages) = Len(event_stages)
        /\ Range(ordered_stages) = Range(StageIds(event_stages))
        /\ \A i, j \in 1..Len(ordered_stages) :
              ( /\ i < j
                /\ IdPrefix(ordered_stages[i]) = IdPrefix(ordered_stages[j])
                /\ IntParses(SplitLast(ordered_stages[i], "_"))
                /\ IntParses(SplitLast(ordered_stages[j], "_")) )
              => IdNumber(ordered_stages[i]) <= IdNumber(ordered_stages[j])
        /\ Range(ordered_stages) = { id_ev_1, id_ev_2, id_ev_10 }
              => ordered_stages = << id_ev_1, id_ev_2, id_ev_10 >>
        /\ ( /\ pc = "done"
             /\ Range(ordered_stages) = { id_ev_1, id_ev_2, id_ev_10 }
             /\ Len(story_files) = 3 )
              => OutputFiles = << File(id_ev_1 \o s_beg), File(id_ev_2 \o s_beg),
                                  File(id_ev_10 \o s_beg) >>

\* the stage table lists ev_2, ev_10, ev_1 in this order, without dependencies
NaturalSortFallbackWitness ==
    /\ pc = "done"
    /\ GraphPath
    /\ NoPoolDependency
    /\ StageIds(stages) = << id_ev_2, id_ev_10, id_ev_1 >>
    /\ ordered_stages = << id_ev_1, id_ev_2, id_ev_10 >>
    /\ OutputFiles = << File(id_ev_1 \o s_beg), File(id_ev_2 \o s_beg), File(id_ev_10 \o s_beg) >>

\* the pool stages a and b unlock each other
MutualDependency(a, b) ==
    /\ a # b
    /\ \E i, j \in 1..Len(stages) :
          /\ stages[i].stage_id = a /\ b \in Range(stages[i].unlock_conditions)
          /\ stages[j].stage_id = b /\ a \in Range(stages[j].unlock_conditions)

\* a stage table in which A depends on B and B on A, each with a story file
CyclicInput ==
    /\ GraphPath
    /\ MutualDependency(id_ev_1, id_ev_2)
    /\ File(id_ev_1 \o s_beg) \in Range(story_files)
    /\ File(id_ev_2 \o s_beg) \in Range(story_files)

\* file f has an entry whose stage is the table's record of stage id
HasRealEntry(f, id) ==
    \E i \in 1..Len(ordered_stories) :
        /\ ordered_stories[i].file = f
        /\ << ordered_stories[i].stage >> = StageGet(stages, id)

CyclicOutput ==
    /\ pc = "done"
    /\ ~raised
    /\ HasRealEntry(File(id_ev_1 \o s_beg), id_ev_1)
    /\ HasRealEntry(File(id_ev_2 \o s_beg), id_ev_2)

\* the steps the caller's two calls still have before them, at most: a call
\* builds the graph, pops each node of it once, orders the stages and emits
StepsLeft ==
    (2 - run) * (Len(stages) + 4)
    + (CASE pc = "start" -> Len(stages) + 3
         [] pc = "topo" -> Len(stages) - Len(result) + 2
         [] pc = "emit" -> 1
         [] OTHER -> 0)

\* C6: with a stage table in which A depends on B and B on A, each with a story
\* file, get_story_order_for_event terminates (every step of the call lowers a
\* bound on the steps it has left), and its output has an entry for A and one
\* for B, each with its real stage record.
CycleSafety ==
    [][ CyclicInput =>
          /\ StepsLeft' < StepsLeft
          /\ StepsLeft' >= 0
          /\ pc' = "done" => CyclicOutput' ]_vars

\* a call on the cyclic table has returned both entries, none of them sequenced
CycleSafetyWitness ==
    /\ CyclicInput
    /\ CyclicOutput
    /\ Len(stages) = 2
    /\ result = <<>>
    /\ ordered_stages = <<>>

\* the scenario's input: no manifest entry, the three files, evX_01 without
\* dependencies in the table, no evX_st01 stage
ScenarioInput ==
    /\ Len(wordcount_order) = 0
    /\ event_id = s_evX
    /\ event_type = "None"
    /\ story_files = << File(id_evX_01 \o s_beg), File(id_evX_01 \o s_end), File(id_evX_st01) >>
    /\ StageGet(stages, id_evX_01) # <<>>
    /\ StageGet(stages, id_evX_01)[1].unlock_conditions = <<>>
    /\ StageGet(stages, id_evX_st01) = <<>>

\* entry i of the output is a synthesized stage for key evX_st01
IsVirtualEntry(i) ==
    /\ ordered_stories[i].stage.stage_id = id_evX_st01
    /\ ordered_stories[i].stage.stage_type \in { "STORY", "HIDDEN_STORY", "UNKNOWN" }
    /\ ordered_stories[i].battle = FALSE

\* entry i of the output is a battle story of the table's stage evX_01
IsBattleEntry(i) ==
    /\ << ordered_stories[i].stage >> = StageGet(stages, id_evX_01)
    /\ ordered_stories[i].battle = TRUE

\* C7 as stated: on the scenario's input the resolver returns exactly
\* (level_evX_st01.json, virtual stage, False), (level_evX_01_beg.json, evX_01, True),
\* (level_evX_01_end.json, evX_01, True), in this order.
ConcreteScenario ==
    (pc = "done" /\ ScenarioInput) =>
        /\ ~raised
        /\ OutputFiles = << File(id_evX_st01), File(id_evX_01 \o s_beg), File(id_evX_01 \o s_end) >>
        /\ IsVirtualEntry(1)
        /\ IsBattleEntry(2)
        /\ IsBattleEntry(3)

\* C7 as amended: on the scenario's input the resolver returns exactly
\* (level_evX_01_beg.json, evX_01, True), (level_evX_01_end.json, evX_01, True),
\* (level_evX_st01.json, synthesized hidden-story stage evX_st01, False), in this
\* order: the file without a stage in the pool comes last.
ConcreteScenarioLeftoverLast ==
    (pc = "done" /\ ScenarioInput) =>
        /\ ~raised
        /\ OutputFiles = << File(id_evX_01 \o s_beg), File(id_evX_01 \o s_end), File(id_evX_st01) >>
        /\ IsBattleEntry(1)
        /\ IsBattleEntry(2)
        /\ IsVirtualEntry(3)
        /\ ordered_stories[3].stage.stage_type = "HIDDEN_STORY"

ConcreteScenarioWitness ==
    /\ pc = "done"
    /\ ScenarioInput
    /\ Len(ordered_stories) = 3
    /\ ordered_stages = << id_evX_01 >>

\* C8: get_story_order_for_event returns an ordering and never raises, whatever
\* the event id, the stage table and the filenames, keys story_<non-numeric>
\* without a stage in the pool included.
NeverRaises == pc = "done" => ~raised

\* ------------------------------------------------------------------------
\* Properties of the table loaders
\* ------------------------------------------------------------------------

\* every value of the dict is a dict
AllDicts(d) == \A i \in 1..Len(d.entries) : d.entries[i].value.kind = "dict"

\* the shape the loader expects of its table
RightShape(loader, v) ==
    /\ v.kind = "dict"
    /\ CASE loader = "stage" ->
              /\ HasKey(v, k_stages)
              /\ DictGet(v, k_stages, JNull).kind = "dict"
              /\ AllDicts(DictGet(v, k_stages, JNull))
         [] loader = "zone" ->
              /\ HasKey(v, k_zones)
              /\ DictGet(v, k_zones, JNull).kind = "dict"
              /\ AllDicts(DictGet(v, k_zones, JNull))
         [] loader = "activity" ->
              /\ HasKey(v, k_basicInfo)
              /\ DictGet(v, k_basicInfo, JNull).kind = "dict"
         [] OTHER -> AllDicts(v)

\* the table file is missing, is not valid JSON, or is JSON of the wrong shape
Malformed(loader) ==
    table_file.state # "valid" \/ ~RightShape(loader, table_file.value)

\* C9: each of the stage, activity, zone and word-count loaders gives an empty
\* mapping, and raises nothing, on a table file that is missing, is not valid
\* JSON, or is valid JSON of the wrong shape.
LoadersDegrade ==
    \A l \in { "stage", "zone", "activity", "wordcount" } :
        (pc = "tables" /\ loaded[l] # <<>> /\ Malformed(l))
            => (~loaded[l][1].raised /\ loaded[l][1].value = JDict(<<>>))

\* what the loaders do hold to: a missing file and a text that is not JSON give
\* an empty mapping
LoadersDegradeOnMissing ==
    \A l \in { "stage", "zone", "activity", "wordcount" } :
        (pc = "tables" /\ loaded[l] # <<>> /\ table_file.state \in { "missing", "invalid" })
            => (~loaded[l][1].raised /\ loaded[l][1].value = JDict(<<>>))

\* ------------------------------------------------------------------------
\* Properties of the build driver
\* ------------------------------------------------------------------------

IsGenerated(e) == \E k \in 1..Len(generated) : generated[k].event_id = e

\* C10: when the resolution of an event of the build raises, every later
\* event of the build is still resolved and generated.
FailureIsolation ==
    (pc = "exit" /\ raised)
        => \A j \in (build_i + 1)..Len(events) : IsGenerated(events[j].event_id)

\* what the driver does hold to: the events before the one that raised were
\* generated, in the order of the build, and the process exits with status 1
FailureStopsTheBuild ==
    (pc = "exit" /\ raised)
        => /\ exit_code = << 1 >>
           /\ Len(generated) = build_i - 1
           /\ \A j \in 1..Len(generated) : generated[j].event_id = events[j].event_id

\* ------------------------------------------------------------------------
\* Properties of both resolvers and of their parts
\* ------------------------------------------------------------------------

LabelOfFile(f) ==
    IF Contains(f, s_beg) THEN s_pre_battle
    ELSE IF Contains(f, s_end) \/ StartsWith(f, s_virtual_) THEN s_post_battle
    ELSE s_interlude

\* C12: every entry returned by get_ordered_stories_for_event carries a phase
\* label of the closed vocabulary: pre-battle for a _beg file, post-battle for
\* an _end file or a placeholder, interlude for every other file; no entry has
\* an empty or other label.
PhaseLabels ==
    \A k \in 1..Len(generated) : \A i \in 1..Len(generated[k].stories) :
        LET e == generated[k].stories[i]
        IN  /\ e.info.story_phase \in { s_pre_battle, s_post_battle, s_interlude }
            /\ e.info.story_phase = LabelOfFile(e.file)

\* what the code does hold to: an entry resolved against a stage table that
\* has rows carries the label its file calls for
PhaseLabelsOfResolvedEntries ==
    \A k \in 1..Len(generated) : \A i \in 1..Len(generated[k].stories) :
        Len(stages) > 0
            => generated[k].stories[i].info.story_phase = LabelOfFile(generated[k].stories[i].file)

\* the nodes of the graph
Nodes(graph) == { graph[i].node : i \in 1..Len(graph) }

\* the nodes a node reaches along at most n edges, n >= 1
RECURSIVE ReachableIn(_, _, _)
ReachableIn(graph, a, n) ==
    LET direct == Range(GraphDeps(graph, a))
    IN  IF n <= 1 THEN direct
        ELSE direct \cup UNION { ReachableIn(graph, b, n - 1) : b \in direct }

Acyclic(graph) == \A a \in Nodes(graph) : a \notin ReachableIn(graph, a, Len(graph))

\* the call went through the dependency graph: the graph-based path of
\* get_story_order_for_event, or get_main_story_order_for_chapter
Sequenced ==
    /\ pc = "done"
    /\ \/ chapter # <<>>
       \/ chapter = <<>> /\ GraphPath

PosInOrder(id) == CHOOSE i \in 1..Len(ordered_stages) : ordered_stages[i] = id

\* C13: on the graph-based path of get_story_order_for_event and in
\* get_main_story_order_for_chapter, when the dependency graph of the pool is
\* acyclic, the stage sequence the entries are emitted from holds every pool
\* stage exactly once and places each stage after every pool stage it
\* depends on.
DependencyOrder ==
    (Sequenced /\ Acyclic(dependency_graph)) =>
        /\ Len(ordered_stages) = Len(event_stages)
        /\ Range(ordered_stages) = Range(StageIds(event_stages))
        /\ \A i \in 1..Len(ordered_stages) :
              \A d \in Range(GraphDeps(dependency_graph, ordered_stages[i])) :
                  PosInOrder(d) < i

\* a chapter of three stages in which a stage of the table comes before the
\* stage it depends on
DependencyOrderWitness ==
    /\ Sequenced
    /\ chapter # <<>>
    /\ Acyclic(dependency_graph)
    /\ Len(ordered_stages) = 3
    /\ \E i, j \in 1..Len(event_stages) :
          /\ i < j
          /\ event_stages[j].stage_id \in Range(event_stages[i].unlock_conditions)

\* the pool stages without and with an in-pool dependency, in the order of
\* the graph
ZeroDependencyStages ==
    LET NoDeps(i) == Len(dependency_graph[i].deps) = 0
        idx == SelectSeq(Indices(Len(dependency_graph)), NoDeps)
    IN  [ k \in 1..Len(idx) |-> dependency_graph[idx[k]].node ]

DependentStages == { dependency_graph[i].node :
                       i \in { j \in 1..Len(dependency_graph) : Len(dependency_graph[j].deps) > 0 } }

\* the graph-based path of get_story_order_for_event has fixed the stage order
\* of a pool with stages of both kinds
MixedPool ==
    /\ pc \in { "emit", "done" }
    /\ chapter = <<>>
    /\ GraphPath
    /\ Len(ZeroDependencyStages) > 0
    /\ DependentStages # {}

\* the stage order is the zero-dependency stages in natural-sort order, then
\* all the stages that have dependencies, each after the ones it depends on
MixedOrder ==
    LET k == Len(ZeroDependencyStages)
        n == Len(ordered_stages)
    IN  /\ n = Len(event_stages)
        /\ SubSeq(ordered_stages, 1, k) = SortedNatural(ZeroDependencyStages)
        /\ { ordered_stages[i] : i \in (k + 1)..n } = DependentStages
        /\ \A i \in (k + 1)..n :
              \A d \in Range(GraphDeps(dependency_graph, ordered_stages[i])) :
                  PosInOrder(d) < i

\* C14: when the pool has at least one stage without an in-pool dependency and
\* at least one stage with one, the stage order is all the zero-dependency
\* stages in natural-sort order, followed by the stages that have dependencies
\* in their topological (start to finish) order, none of the second group
\* before one of the first.
MixedDependencyPolicy == MixedPool => MixedOrder

\* what the code does hold to: the policy on a pool whose graph has no cycle
MixedDependencyPolicyOfAcyclicPool == (MixedPool /\ Acyclic(dependency_graph)) => MixedOrder

\* the pool stages topological_sort did not reach, in the order of the graph
UnprocessedStages ==
    LET Left(i) == dependency_graph[i].node \notin Range(result)
        idx == SelectSeq(Indices(Len(dependency_graph)), Left)
    IN  [ k \in 1..Len(idx) |-> dependency_graph[idx[k]].node ]

\* the graph-based path of get_story_order_for_event has fixed the stage order
\* of a pool whose graph has a cycle
CyclicPool ==
    /\ pc \in { "emit", "done" }
    /\ chapter = <<>>
    /\ GraphPath
    /\ ~Acyclic(dependency_graph)

\* C15: when the dependency graph of the pool has a cycle, the stages Kahn's
\* algorithm leaves unprocessed are treated as having no dependency data and
\* are appended to the stage order in natural-sort order, without an error.
CyclePolicy ==
    CyclicPool =>
        LET n == Len(ordered_stages)
            u == Len(UnprocessedStages)
        IN  /\ n = Len(event_stages)
            /\ SubSeq(ordered_stages, n - u + 1, n) = SortedNatural(UnprocessedStages)

\* the entries of the files of two pool stages follow the natural order of
\* the stage ids
InNaturalOrder(a, b) ==
    \A i, j \in 1..Len(ordered_stories) :
        ( /\ ordered_stories[i].stage.stage_id = a
          /\ ordered_stories[j].stage.stage_id = b
          /\ NaturalLess(a, b) ) => i < j

\* the same policy read off the output: the files of the unprocessed stages
\* come in the natural order of their stages
CyclePolicyOfOutput ==
    (CyclicPool /\ pc = "done" /\ ~raised) =>
        \A a, b \in Range(UnprocessedStages) : InNaturalOrder(a, b)

\* what the code does hold to: the unprocessed stages are left out of the
\* stage order and no error is raised by the sequencing
CycleDropsStages ==
    CyclicPool => Range(ordered_stages) \cap Range(UnprocessedStages) = {}

\* s contains p, the case of the letters set aside
ContainsIgnoringCase(s, p) == Contains(Lower(s), Lower(p))

\* the stage is one the matcher is to return for event K
Qualifies(st, K) ==
    \/ StartsWith(st.stage_id, K)
    \/ st.level_id # <<>> /\ ContainsIgnoringCase(st.level_id[1], K)
    \/ K = s_act3d0 /\ StartsWith(st.stage_id, s_a003_)
    \/ K = s_act4d0 /\ StartsWith(st.stage_id, s_a004_)

\* C16: get_event_related_stages(K, stages) returns exactly the stages whose
\* stage id starts with K, or whose level id contains K whatever the case, or
\* whose stage id starts with a003_ (K = act3d0) or a004_ (K = act4d0); the
\* mapping is empty when none qualifies, and no stage without a level id makes
\* the call fail.
StageMatcher ==
    pc \in { "matched", "graph" } =>
        /\ Range(event_stages) = { st \in Range(stages) : Qualifies(st, event_id) }
        /\ \A i, j \in 1..Len(event_stages) :
              event_stages[i].stage_id = event_stages[j].stage_id => i = j
        /\ ~raised

\* a table in which one stage qualifies by its level id alone, in another
\* case than K's, and one stage without a level id does not qualify
StageMatcherWitness ==
    /\ pc = "matched"
    /\ \E i \in 1..Len(event_stages) :
          /\ ~StartsWith(event_stages[i].stage_id, event_id)
          /\ event_stages[i].level_id # <<>>
          /\ ~Contains(event_stages[i].level_id[1], event_id)
    /\ \E j \in 1..Len(stages) :
          /\ stages[j].level_id = <<>>
          /\ stages[j] \notin Range(event_stages)

\* C17: build_stage_dependency_graph(pool) yields a graph whose nodes are
\* exactly the stage ids of the pool and whose every edge S->D has D in the
\* pool and D among the unlock dependencies of S; an unlock dependency that
\* names a stage outside the pool gives no edge and no error.
GraphConstruction ==
    pc = "graph" =>
        /\ [ i \in 1..Len(dependency_graph) |-> dependency_graph[i].node ] = StageIds(event_stages)
        /\ \A i \in 1..Len(dependency_graph) :
              \A d \in Range(dependency_graph[i].deps) :
                  /\ d \in Range(StageIds(event_stages))
                  /\ d \in Range(event_stages[i].unlock_conditions)
        /\ ~raised

\* a pool with a stage that depends on a pool stage, on a stage of the table
\* outside the pool or on a stage no table holds
GraphConstructionWitness ==
    /\ pc = "graph"
    /\ \E i \in 1..Len(event_stages) :
          /\ Len(dependency_graph[i].deps) = 1
          /\ Len(event_stages[i].unlock_conditions) = 2
    /\ \E j \in 1..Len(stages) : stages[j] \notin Range(event_stages)

\* the files the keys of the manifest resolve to
ManifestMatched ==
    { m[1] : m \in { MatchedFile(event_id, story_files, wordcount_order[k]) :
                       k \in 1..Len(wordcount_order) } \ { <<>> } }

\* the input files no key of the manifest resolved to
ManifestLeftover == Range(FilesNotIn(story_files, ManifestMatched))

\* every leftover file is emitted after all the matched files, the leftover
\* files in natural filename order
LeftoversLast ==
    /\ \A f \in ManifestLeftover : Occurrences(f) = 1
    /\ \A f \in ManifestLeftover : \A g \in ManifestMatched : Pos(g) < Pos(f)
    /\ \A f, g \in ManifestLeftover : NaturalLess(f, g) => Pos(f) < Pos(g)

\* C18: on the manifest path every input file that no manifest key resolved
\* to is emitted after all the manifest-matched files, and these leftover
\* files are in natural (numeric-aware) filename order among themselves.
ManifestLeftovers == (pc = "done" /\ chapter = <<>> /\ Len(wordcount_order) > 0) => LeftoversLast

\* what the code does hold to: the same of a call that returns
ManifestLeftoversOfReturnedOrder ==
    (pc = "done" /\ chapter = <<>> /\ Len(wordcount_order) > 0 /\ ~raised) => LeftoversLast

\* the manifest path gave file i the stage key and the phase of the
\* graph-based path
SameClassification(i) ==
    /\ ordered_stories[i].stage.stage_id = story_stage_mapping[i].stage_id
    /\ ordered_stories[i].battle = (story_stage_mapping[i].story_type \in { "beg", "end" })

\* C19: for every filename and event id, the phase and the stage key that
\* get_story_order_from_wordcount assigns to a manifest-matched file equal the
\* phase and the stage key the graph-based path assigns to the same filename,
\* the _hidden_st<NN> and _st<NN> rewrites included.
ClassifierEquivalence ==
    pc = "compared" => \A i \in 1..Len(story_files) : SameClassification(i)

\* what the code does hold to: the two agree on the files whose name has no
\* '_st' outside a _beg or _end name
ClassifierEquivalenceWithoutSt ==
    pc = "compared" =>
        \A i \in 1..Len(story_files) :
            ( \/ Contains(BaseName(story_files[i]), s_beg)
              \/ Contains(BaseName(story_files[i]), s_end)
              \/ ~Contains(BaseName(story_files[i]), s_st) ) => SameClassification(i)

\* the digits d of a file name level_<x>_st<d>.json with x and d non-empty,
\* << d >>, and <<>> for any other name
StDigitsOf(f) ==
    LET n == Len(f)
        P == { i \in 8..(n - 8) :
                 /\ SubSeq(f, 1, 6) = s_level_
                 /\ SubSeq(f, i, i + 2) = s_st
                 /\ SubSeq(f, n - 4, n) = s_json
                 /\ \A j \in (i + 3)..(n - 5) : f[j] \in DigitSet }
    IN  IF P = {} THEN <<>> ELSE << SubSeq(f, (CHOOSE i \in P : TRUE) + 3, n - 5) >>

\* the story-only path ran: a MINISTORY event without a manifest entry returned
StoryOnlyReturned ==
    /\ pc = "done"
    /\ event_type = "MINISTORY"
    /\ Len(wordcount_order) = 0

\* C20: for a MINISTORY event without a manifest entry the output holds exactly
\* the input files named level_<x>_st<digits>.json, each once, each with a
\* stage coded ST-<N>, N the value of the digits, and a False battle flag,
\* whatever the stage table holds.
StoryOnlyPath ==
    StoryOnlyReturned =>
        /\ ~raised
        /\ \A f \in Range(story_files) :
              Cardinality({ i \in 1..Len(ordered_stories) : ordered_stories[i].file = f })
                  = IF StDigitsOf(f) = <<>> THEN 0 ELSE 1
        /\ \A i \in 1..Len(ordered_stories) :
              LET e == ordered_stories[i]
              IN  /\ e.file \in Range(story_files)
                  /\ StDigitsOf(e.file) # <<>>
                  /\ e.stage.code = <<"S", "T", "-">> \o IntToStr(DigitsToInt(StDigitsOf(e.file)[1]))
                  /\ e.battle = FALSE

\* the path returned two story files out of three input files, with a stage
\* table that holds stages of the event
StoryOnlyPathWitness ==
    /\ StoryOnlyReturned
    /\ Len(story_files) = 3
    /\ Len(ordered_stories) = 2
    /\ Len(get_event_related_stages(event_id, stages)) > 0
    /\ ordered_stories[2].stage.code = <<"S", "T", "-", "2">>

\* a story-only path ran: the MINISTORY path or the path of act4d0, act6d5
\* and act7d5, without a manifest entry
EpisodesReturned ==
    /\ pc = "done"
    /\ Len(wordcount_order) = 0
    /\ event_type = "MINISTORY" \/ event_id \in TypeAct4d0Events

\* the number NN of the _st<NN> file of entry i
EpisodeNumber(i) == DigitsToInt(StDigitsOf(ordered_stories[i].file)[1])

\* C21: in the MINISTORY path and in the act4d0/act6d5/act7d5 path the emitted
\* _st<NN> entries are in ascending order of the numeric value of NN, also
\* when the numbers are not padded to a common width.
EpisodeOrder ==
    EpisodesReturned =>
        \A i, j \in 1..Len(ordered_stories) : i < j => EpisodeNumber(i) <= EpisodeNumber(j)

\* what the code does hold to: the entries are in ascending order of the file
\* names compared character by character
EpisodeOrderOfNames ==
    EpisodesReturned =>
        \A i, j \in 1..Len(ordered_stories) :
            i < j => StrLess(ordered_stories[i].file, ordered_stories[j].file)

\* the graph-based path returned
GraphPathReturned == pc = "done" /\ GraphPath /\ ~raised

\* entry i has a file that is no input file
IsPlaceholder(i) == ordered_stories[i].file \notin Range(story_files)

\* the entries without an input file bound to stage id
PlaceholdersOf(id) ==
    { i \in 1..Len(ordered_stories) : IsPlaceholder(i) /\ ordered_stories[i].stage.stage_id = id }

\* an input file is classified to stage id
HasClassifiedFile(id) ==
    \E f \in Range(story_files) : ClassifyFile(event_id, event_type, f).stage_id = id

\* id is act9d0_07 or act9d0_08 and the event is act9d0
AllowListed(id) ==
    /\ event_id = << "a", "c", "t", "9", "d", "0" >>
    /\ id \in { << "a", "c", "t", "9", "d", "0", "_", "0", "7" >>,
                << "a", "c", "t", "9", "d", "0", "_", "0", "8" >> }

\* C22: in the graph-based path an entry whose file is no input filename is
\* emitted for a stage if and only if the stage is on the allow-list, is in
\* the pool's stage order and has no input file classified to it; there is at
\* most one such entry per stage and its battle flag is True.
PlaceholderEntries ==
    GraphPathReturned =>
        /\ \A i \in 1..Len(ordered_stories) : IsPlaceholder(i) => ordered_stories[i].battle = TRUE
        /\ \A id \in Range(StageIds(stages)) \cup { ordered_stories[i].stage.stage_id :
                                              i \in 1..Len(ordered_stories) } :
              Cardinality(PlaceholdersOf(id))
                  = IF /\ AllowListed(id)
                       /\ id \in Range(ordered_stages)
                       /\ StageGet(event_stages, id) # <<>>
                       /\ ~HasClassifiedFile(id)
                    THEN 1 ELSE 0

\* act9d0 returned a placeholder for one allow-listed stage and the file of
\* the other, and left a stage off the allow-list without an entry
PlaceholderEntriesWitness ==
    /\ GraphPathReturned
    /\ Cardinality(PlaceholdersOf(id_act9d0_07)) = 1
    /\ HasClassifiedFile(id_act9d0_08)
    /\ id_act9d0_06 \in Range(ordered_stages)
    /\ ~HasClassifiedFile(id_act9d0_06)
    /\ Len(ordered_stories) = 2

\* the entries appended while iterating the stage order
StageOrdered ==
    StageLoop(event_id, event_stages, ordered_stages, story_files, story_stage_mapping)

\* the input files no stage-ordered entry holds
LeftoverFiles ==
    { f \in Range(story_files) : \A i \in 1..Len(StageOrdered) : StageOrdered[i].file # f }

\* the stage key of an input file
KeyOfFile(f) == ClassifyFile(event_id, event_type, f).stage_id

\* code is made from the upper-cased token tok: the token itself, the token
\* after a prefix, ST-<n> after a prefix for a token S<n>, or the number of the
\* hidden story for a numeric token
DerivedFromToken(code, tok) ==
    \/ code = tok
    \/ /\ Len(tok) > 0
       /\ tok[1] = "S"
       /\ \/ EndsWith(code, << "-" >> \o tok)
          \/ /\ IsDigit(Tail(tok))
             /\ EndsWith(code, << "-", "S", "T", "-" >> \o IntToStr(DigitsToInt(Tail(tok))))
    \/ /\ IsDigit(tok)
       /\ code = << "U+9006", "U+884C" >> \o IntToStr(DigitsToInt(tok) + 1)

\* entry e is a leftover bound as the sweep binds it
BoundAsLeftover(e) ==
    LET key == KeyOfFile(e.file)
        found == StageGet(event_stages, key)
    IN  IF found # <<>> THEN e.stage = found[1]
        ELSE /\ e.stage.stage_id = key
             /\ DerivedFromToken(e.stage.code, Upper(SplitLast(key, "_")))

\* the output is the stage-ordered entries and then the leftovers, each once,
\* in ascending order of the names, bound as the sweep binds them
SweptLast ==
    LET n == Len(StageOrdered)
    IN  /\ Len(ordered_stories) = n + Cardinality(LeftoverFiles)
        /\ SubSeq(ordered_stories, 1, n) = StageOrdered
        /\ \A f \in LeftoverFiles :
              \E i \in (n + 1)..Len(ordered_stories) : ordered_stories[i].file = f
        /\ \A i, j \in (n + 1)..Len(ordered_stories) :
              i < j => StrLess(ordered_stories[i].file, ordered_stories[j].file)
        /\ \A i \in (n + 1)..Len(ordered_stories) : BoundAsLeftover(ordered_stories[i])

\* C23: in the graph-based path every input filename not emitted while
\* iterating the stage order is appended after all stage-ordered entries, the
\* leftovers in ascending alphabetical filename order, each bound to the pool
\* stage of its key when the pool has it and otherwise to a synthesized stage
\* whose code is derived from the last token of the key, uppercased.
LeftoverSweep == (pc = "done" /\ GraphPath) => (~raised /\ SweptLast)

\* what the code does hold to: the same on every call that returns
LeftoverSweepOfReturnedOrder == GraphPathReturned => SweptLast

\* a returned order with a stage-ordered entry and a leftover bound to a pool
\* stage
LeftoverOfPoolStage ==
    /\ GraphPathReturned
    /\ Len(StageOrdered) > 0
    /\ \E i \in (Len(StageOrdered) + 1)..Len(ordered_stories) :
          StageGet(event_stages, KeyOfFile(ordered_stories[i].file)) # <<>>

\* a returned order with a stage-ordered entry and a leftover bound to a
\* synthesized stage with a prefixed code
LeftoverOfSynthesizedStage ==
    /\ GraphPathReturned
    /\ Len(StageOrdered) > 0
    /\ \E i \in (Len(StageOrdered) + 1)..Len(ordered_stories) :
          /\ StageGet(event_stages, KeyOfFile(ordered_stories[i].file)) = <<>>
          /\ ordered_stories[i].stage.code # Upper(SplitLast(KeyOfFile(ordered_stories[i].file), "_"))

\* the name between 'level_' and '.json'
Body(f) == SubSeq(f, 7, Len(f) - 5)

\* the ways to read f as level_<p>_sub-<m>-<n>_end.json: <<i, j>> with
\* '_sub-' at i and the '-' between m and n at j of the body
SubReadings(f) ==
    LET core == SubSeq(Body(f), 1, Len(Body(f)) - 4)
    IN  { ij \in (2..Len(core)) \X (1..Len(core)) :
            /\ SubSeq(Body(f), Len(core) + 1, Len(Body(f))) = << "_", "e", "n", "d" >>
            /\ ij[1] + 4 <= Len(core)
            /\ SubSeq(core, ij[1], ij[1] + 4) = << "_", "s", "u", "b", "-" >>
            /\ ij[2] > ij[1] + 5
            /\ ij[2] < Len(core)
            /\ core[ij[2]] = "-"
            /\ \A k \in ((ij[1] + 5)..(ij[2] - 1)) \cup ((ij[2] + 1)..Len(core)) :
                  core[k] \in DigitSet }

\* f is a sub-stage file
IsSubStageFile(f) == SubReadings(f) # {}

\* <p>_s<n>, n padded with zeros to two digits
SubStageKey(f) ==
    LET core == SubSeq(Body(f), 1, Len(Body(f)) - 4)
        ij == CHOOSE x \in SubReadings(f) : TRUE
        n == SubSeq(core, ij[2] + 1, Len(core))
    IN  SubSeq(core, 1, ij[1] - 1) \o << "_", "s" >>
            \o (IF Len(n) = 1 THEN << "0" >> ELSE <<>>) \o n

\* the resolver returned without raising
ResolverReturned == pc = "done" /\ ~raised

\* C24: a file level_<p>_sub-<m>-<n>_end.json is assigned the stage key
\* <p>_s<n padded to two digits>; two such files with different m and equal n
\* receive the same key, and both still appear in the output.
SubStageRewrite ==
    (pc = "done" /\ event_id # s_act3d0) =>
        /\ ~raised
        /\ \A f \in Range(story_files) :
              IsSubStageFile(f) =>
                  \E i \in 1..Len(ordered_stories) :
                      /\ ordered_stories[i].file = f
                      /\ ordered_stories[i].stage.stage_id = SubStageKey(f)
                      /\ \A j \in 1..Len(ordered_stories) : ordered_stories[j].file = f => j = i

\* two sub-stage files with different m and equal n returned under the one
\* key, the stage of the key being in the pool
SubStageRewriteWitness ==
    /\ ResolverReturned
    /\ \E i, j \in 1..Len(ordered_stories) :
          /\ ordered_stories[i].file = File(id_evX_sub_1_2 \o s_end)
          /\ ordered_stories[j].file = File(id_evX_sub_3_2 \o s_end)
          /\ ordered_stories[i].stage.stage_id = id_evX_s02
          /\ ordered_stories[j].stage = ordered_stories[i].stage
          /\ ordered_stories[i].stage.code = << "E", "X", "-", "S", "2" >>

\* the digits NN of a file name level_<p>_hidden_st<NN>.json, << NN >>, and
\* <<>> for any other name
HiddenDigitsOf(f) ==
    LET b == Body(f)
        P == { i \in 2..(Len(b) - 10) :
                 /\ SubSeq(b, i, i + 9) = << "_", "h", "i", "d", "d", "e", "n", "_", "s", "t" >>
                 /\ \A k \in (i + 10)..Len(b) : b[k] \in DigitSet }
    IN  IF P = {} THEN <<>> ELSE << SubSeq(b, (CHOOSE i \in P : TRUE) + 10, Len(b)) >>

\* the path with a sweep ran: the graph-based path or the manifest path
SweepingPathDone == pc = "done" /\ (GraphPath \/ Len(wordcount_order) > 0)

\* the entry of file f is numbered as a hidden story
NumberedAsHidden(e) ==
    LET nn == DigitsToInt(HiddenDigitsOf(e.file)[1])
        key == << "s", "t", "o", "r", "y", "_" >> \o IntToStr(nn - 1)
    IN  /\ e.stage.stage_id = key
        /\ StageGet(get_event_related_stages(event_id, stages), key) = <<>>
              => e.stage.code = << "U+9006", "U+884C" >> \o IntToStr(nn)

\* C25: a story-only file level_<p>_hidden_st<NN>.json is assigned the key
\* story_<NN-1>, and when the pool has no stage of that key its synthesized
\* stage has the code of the hidden story NN, for every NN >= 0, in the
\* leftover sweep of the graph-based path and in the sweep of the manifest
\* remainder alike.
HiddenNumbering ==
    SweepingPathDone =>
        /\ ~raised
        /\ \A f \in Range(story_files) :
              HiddenDigitsOf(f) # <<>> =>
                  \E i \in 1..Len(ordered_stories) :
                      ordered_stories[i].file = f /\ NumberedAsHidden(ordered_stories[i])

\* the sweep of the manifest remainder numbered the hidden stories 00 and 10
\* with no stage of their keys in the pool
HiddenNumberingWitness ==
    /\ SweepingPathDone
    /\ Len(wordcount_order) > 0
    /\ Len(ordered_stories) = 3
    /\ ordered_stories[2].stage.code = << "U+9006", "U+884C", "0" >>
    /\ ordered_stories[3].stage.code = << "U+9006", "U+884C", "1", "0" >>

\* the leftover sweep of the graph-based path numbered the hidden story 00 with
\* no stage of its key in the pool, and bound the hidden story 01 to the
\* pool's stage
HiddenNumberingInGraphPath ==
    /\ SweepingPathDone
    /\ GraphPath
    /\ \E i, j \in 1..Len(ordered_stories) :
          /\ ordered_stories[i].stage.code = << "U+9006", "U+884C", "0" >>
          /\ ordered_stories[j].stage.stage_id = id_story_0
          /\ ordered_stories[j].stage.code = << "C" >>

\* get_main_story_order_for_chapter returned
ChapterReturned == pc = "done" /\ chapter # <<>>

\* C26: each filename passed to get_main_story_order_for_chapter appears
\* exactly once in its output, also when its stage is absent from the stage
\* table or lies on a dependency cycle.
ChapterCompleteness ==
    ChapterReturned =>
        \A f \in Range(story_files) :
            Cardinality({ i \in 1..Len(ordered_stories) : ordered_stories[i].file = f }) = 1

\* what the code does hold to: the output holds input files only, none twice,
\* and every file of a sequenced stage of the chapter
ChapterOutputOfSequencedStages ==
    ChapterReturned =>
        /\ \A i, j \in 1..Len(ordered_stories) :
              /\ ordered_stories[i].file \in Range(story_files)
              /\ ordered_stories[i].file = ordered_stories[j].file => i = j
        /\ \A k \in 1..Len(story_files) :
              story_stage_mapping[k].stage_id \in Range(result)
                  => \E i \in 1..Len(ordered_stories) : ordered_stories[i].file = story_files[k]

\* get_ordered_stories_for_event is over for an event whose activity is of
\* type MINISTORY and that has no manifest entry
MinistoryEntryDone ==
    /\ pc = "done"
    /\ build_i >= 1
    /\ build_i <= Len(events)
    /\ events[build_i].type = "MINISTORY"
    /\ Len(wordcount_order) = 0

\* the files and display codes the entry point returns
EntryFilesAndCodes ==
    [ i \in 1..Len(DisplayEntries) |->
        << DisplayEntries[i].file, DisplayEntries[i].info.code >> ]

\* the files and display codes of get_story_order_for_event called with the
\* event type MINISTORY
MinistoryFilesAndCodes ==
    LET expected == get_ministory_stages(event_id, story_files)
    IN  [ i \in 1..Len(expected) |->
            << expected[i].file, get_stage_display_info(expected[i].stage, "story").code >> ]

\* C27: for an event whose activity type is MINISTORY and that has no manifest
\* entry, get_ordered_stories_for_event returns the files and display codes
\* that get_story_order_for_event returns when called with event_type
\* MINISTORY: the _st<NN> files only, each with the code ST-<N>.
TypeTagReachesResolver ==
    MinistoryEntryDone => (~raised /\ EntryFilesAndCodes = MinistoryFilesAndCodes)

\* what the code does hold to: the resolver is called without the type of the
\* activity, whatever it is
TypeTagDropped == (pc \notin { "build", "exit" } /\ build_i >= 1) => event_type = "None"

\* C28: for a fixed set of stage records and a fixed set of filenames the
\* sequence get_story_order_for_event returns, files and stage descriptors,
\* is the same for every insertion order of the stage table and every order
\* of the file list.
OrderIndependence == (pc = "done" /\ run = 2) => outcome = first_run[1]

\* what the code does hold to: the same files are returned in whatever order
\* the records and the names come
OrderIndependenceOfFileSet ==
    (pc = "done" /\ run = 2) =>
        /\ raised = first_run[1].raised
        /\ { ordered_stories[i].file : i \in 1..Len(ordered_stories) }
             = { first_run[1].stories[i].file : i \in 1..Len(first_run[1].stories) }

\* the steps topological_sort still has before it, at most: it fills the
\* queue, pops each node once and returns
SortStepsLeft ==
    CASE pc = "sort" -> Len(dependency_graph) + 2
      [] pc = "topo" -> Len(dependency_graph) - Len(result) + 1
      [] OTHER -> 0

\* the result holds graph nodes only, none twice, all of them if and only if
\* the graph is acyclic, and every node before the nodes it depends on
SortedResult ==
    /\ Range(result) \subseteq Nodes(dependency_graph)
    /\ \A i, j \in 1..Len(result) : result[i] = result[j] => i = j
    /\ Range(result) = Nodes(dependency_graph) <=> Acyclic(dependency_graph)
    /\ \A i, j \in 1..Len(result) :
          result[j] \in Range(GraphDeps(dependency_graph, result[i])) => i < j

\* C29: topological_sort terminates on every finite graph, with cycles,
\* self-edges, duplicate edges and edges to unknown nodes (every step lowers a
\* bound on the steps left); its result holds graph nodes only, no node twice,
\* all nodes if and only if the graph is acyclic, and every node before each
\* node it depends on.
TopologicalSort ==
    [][ /\ SortStepsLeft' < SortStepsLeft
        /\ SortStepsLeft' >= 0
        /\ pc' = "sorted" => SortedResult' ]_vars

\* topological_sort returned all nodes of an acyclic graph with a duplicate
\* edge and an edge to an unknown node
TopologicalSortWitness ==
    /\ pc = "sorted"
    /\ Len(result) = 3
    /\ \E i \in 1..Len(dependency_graph) :
          /\ Len(dependency_graph[i].deps) = 2
          /\ dependency_graph[i].deps[1] = dependency_graph[i].deps[2]
          /\ dependency_graph[i].deps[1] \in Nodes(dependency_graph)
    /\ \E i \in 1..Len(dependency_graph) : TopoUnknown \in Range(dependency_graph[i].deps)

\* topological_sort returned without the nodes of a cycle and without a node
\* with a self-edge
TopologicalSortOfCycle ==
    /\ pc = "sorted"
    /\ Len(dependency_graph) = 3
    /\ Len(result) = 0
    /\ \E i \in 1..Len(dependency_graph) :
          dependency_graph[i].node \in Range(dependency_graph[i].deps)

\* the file names of the placeholders of the allow-list
PlaceholderNames ==
    { << "v", "i", "r", "t", "u", "a", "l", "_" >> \o id \o << "_", "e", "n", "d" >> :
        id \in { id_act9d0_07, id_act9d0_08 } }

\* the manifest keys that no input file answers to: neither the key nor the
\* key after the event id is the base name, or the base name after the event
\* id, of an input file
KeysWithoutFile ==
    LET Names(s) == { s } \cup (IF StartsWith(s, event_id \o << "_" >>)
                                THEN { From(s, Len(event_id) + 2) } ELSE {})
    IN  { k \in Range(wordcount_order) :
            \A f \in Range(story_files) : Names(k) \cap Names(Body(f)) = {} }

\* C30: every entry returned by get_story_order_for_event has a file that is
\* one of the input filenames or an allow-listed placeholder; in the manifest
\* path a manifest key for which no input file exists produces no entry, and
\* no input filename is emitted under an altered name.
NoFabricatedEntries ==
    pc = "done" =>
        /\ \A i \in 1..Len(ordered_stories) :
              \/ ordered_stories[i].file \in Range(story_files)
              \/ /\ GraphPath
                 /\ event_id = s_act9d0
                 /\ ordered_stories[i].file \in PlaceholderNames
        /\ Len(wordcount_order) > 0 =>
              /\ \A i \in 1..Len(ordered_stories) : ordered_stories[i].file \in Range(story_files)
              /\ Len(ordered_stories) <= Len(story_files)

\* the manifest path returned the files of the directory, one of them matched
\* by a key, with a key no input file answers to in the manifest
NoFabricatedEntriesWitness ==
    /\ pc = "done"
    /\ ~raised
    /\ Len(wordcount_order) = 2
    /\ Cardinality(KeysWithoutFile) = 1
    /\ Len(story_files) = 2
    /\ Len(ordered_stories) = 2
    /\ ordered_stories[1].file = File(id_act9d0_07)

\* the graph-based path returned an input file and a placeholder
FilesAndPlaceholderReturned ==
    /\ pc = "done"
    /\ GraphPath
    /\ \E i, j \in 1..Len(ordered_stories) :
          /\ ordered_stories[i].file \in Range(story_files)
          /\ ordered_stories[j].file \in PlaceholderNames

====
